---- MODULE Spec2Model ----
(***************************************************************************)
(* Checkpoint-to-definition position injection of the Striim exporter      *)
(* (striim_export_all_with_checkpoint.py).                                 *)
(*                                                                         *)
(* Texts (checkpoint summaries, TQL documents, position strings) are TLA+  *)
(* strings; the regular expressions of the source are matched character by *)
(* character with Len, SubSeq and \o.  Python's re.search is the leftmost   *)
(* match; every pattern of the source is deterministic under greedy        *)
(* matching (each repetition is followed by a character outside its        *)
(* class), so backtracking never finds a match the greedy scan misses.     *)
(***************************************************************************)
EXTENDS Integers, Sequences, FiniteSets, TLC

VARIABLES
    pc,             \* position in the per-application processing
    result,         \* what api.execute_command returned for SHOW ... CHECKPOINT HISTORY
    position_info,  \* what get_checkpoint_history returned
    file,           \* content of the exported TQL file on disk
    file0,          \* content of the TQL file as extracted (history)
    reader_type,    \* what get_reader_type returned
    updated,        \* what update_tql_with_position returned
    writes,         \* number of times the TQL file was opened for writing
    apps,           \* exported_files with, for each, the server's checkpoint response
    outcomes,       \* how the processing of each application so far ended (history)
    readable,       \* whether the TQL file of the application can be read
    run,            \* the exporter's run before the loop: api.token, app_names, the
                    \* steps done, the exit status, the TQL files extraction wrote
    counts,         \* the run-summary counters of the exporter's main
    argv,           \* the options given on the exporter's command line
    args,           \* the exporter's args namespace
    importer,       \* the importer's run: its options, api.token, tql_files, counters
    requests        \* the requests the importer has posted to the server (history)

vars == <<pc, result, position_info, file, file0, reader_type, updated, writes,
          apps, outcomes, readable, run, counts, argv, args, importer, requests>>

\* What the exporter's processing loop never touches.
outsideLoop == <<run, argv, args, importer, requests>>

(***************************************************************************)
(* Characters and character classes of Python's re (ASCII part).           *)
(***************************************************************************)
\* The element of a one-element set.  A value bound to a name through a set,
\* {e(x) : x \in {v}}, is computed once wherever e uses it.
The(S) == CHOOSE x \in S : TRUE

Ch(s, i) == IF i >= 1 /\ i <= Len(s) THEN SubSeq(s, i, i) ELSE ""

Whitespace == {" ", "\t", "\n", "\r", "\f"}

Digits == {"0", "1", "2", "3", "4", "5", "6", "7", "8", "9"}

HexDigits == Digits \cup {"a", "b", "c", "d", "e", "f", "A", "B", "C", "D", "E", "F"}

UpperLetters ==
    {"A", "B", "C", "D", "E", "F", "G", "H", "I", "J", "K", "L", "M",
     "N", "O", "P", "Q", "R", "S", "T", "U", "V", "W", "X", "Y", "Z"}

LowerOf ==
    ("A" :> "a") @@ ("B" :> "b") @@ ("C" :> "c") @@ ("D" :> "d") @@ ("E" :> "e") @@
    ("F" :> "f") @@ ("G" :> "g") @@ ("H" :> "h") @@ ("I" :> "i") @@ ("J" :> "j") @@
    ("K" :> "k") @@ ("L" :> "l") @@ ("M" :> "m") @@ ("N" :> "n") @@ ("O" :> "o") @@
    ("P" :> "p") @@ ("Q" :> "q") @@ ("R" :> "r") @@ ("S" :> "s") @@ ("T" :> "t") @@
    ("U" :> "u") @@ ("V" :> "v") @@ ("W" :> "w") @@ ("X" :> "x") @@ ("Y" :> "y") @@
    ("Z" :> "z")

LowerLetters == {LowerOf[c] : c \in UpperLetters}

WordChars == UpperLetters \cup LowerLetters \cup Digits \cup {"_"}

\* re.IGNORECASE compares case-folded characters (the text is halved at each step,
\* which keeps the evaluation shallow).
RECURSIVE ToLower(_)
ToLower(s) ==
    The({IF Len(t) = 0 THEN ""
         ELSE IF Len(t) = 1 THEN (IF t \in UpperLetters THEN LowerOf[t] ELSE t)
         ELSE ToLower(SubSeq(t, 1, Len(t) \div 2))
              \o ToLower(SubSeq(t, Len(t) \div 2 + 1, Len(t))) : t \in {s}})

\* The literal lit stands in s at index i.
StartsAt(s, i, lit) ==
    /\ i >= 1
    /\ i + Len(lit) - 1 <= Len(s)
    /\ SubSeq(s, i, i + Len(lit) - 1) = lit

\* First index >= i whose character is outside class (C*, greedy); Len(s)+1 at the end.
SkipIn(s, i, class) ==
    The({CHOOSE j \in a..(Len(s) + 1) :
             /\ j = Len(s) + 1 \/ Ch(s, j) \notin class
             /\ \A k \in a..(j - 1) : Ch(s, k) \in class : a \in {i}})

\* First index >= i whose character is inside class ([^C]*, greedy); Len(s)+1 at the end.
SkipNotIn(s, i, class) ==
    The({CHOOSE j \in a..(Len(s) + 1) :
             /\ j = Len(s) + 1 \/ Ch(s, j) \in class
             /\ \A k \in a..(j - 1) : Ch(s, k) \notin class : a \in {i}})

\* Sequencing of pattern pieces: an index is the position after the piece matched
\* so far, 0 once a piece has failed.
Lit(s, i, lit) == The({IF a > 0 /\ StartsAt(s, a, lit) THEN a + Len(lit) ELSE 0 : a \in {i}})

\* class+ (greedy)
Plus(s, i, class) ==
    The({IF a > 0 THEN The({IF e > a THEN e ELSE 0 : e \in {SkipIn(s, a, class)}}) ELSE 0 :
         a \in {i}})

\* class* (greedy)
Star(s, i, class) == The({IF a > 0 THEN SkipIn(s, a, class) ELSE 0 : a \in {i}})

\* [^class]* (greedy)
StarNot(s, i, class) == The({IF a > 0 THEN SkipNotIn(s, a, class) ELSE 0 : a \in {i}})

\* [^class]+ (greedy)
PlusNot(s, i, class) ==
    The({IF a > 0 THEN The({IF e > a THEN e ELSE 0 : e \in {SkipNotIn(s, a, class)}}) ELSE 0 :
         a \in {i}})

NoMatch == [found |-> FALSE]

Match(start, end, groups) == [found |-> TRUE, start |-> start, end |-> end, groups |-> groups]

\* re.search: of the attempts at every start index, the match that starts leftmost.
Search(attempts) ==
    The({IF ms = {} THEN NoMatch ELSE CHOOSE m \in ms : \A n \in ms : m.start <= n.start :
         ms \in {{m \in attempts : m.found}}})

\* All texts made of at most n parts, concatenated.
RECURSIVE Texts(_, _)
Texts(parts, n) ==
    IF n = 0 THEN {""}
    ELSE LET shorter == Texts(parts, n - 1)
         IN  shorter \cup {t \o p : t \in shorter, p \in parts}

(***************************************************************************)
(* get_checkpoint_history: the extraction rules.                           *)
(***************************************************************************)
None == [type |-> "None"]

\* r'BinlogName\s*:\s*([^\s\n]+)'
BinlogNameAt(s, i) ==
    IF ~StartsAt(s, i, "BinlogName") THEN NoMatch
    ELSE LET colon == SkipIn(s, i + Len("BinlogName"), Whitespace)
         IN  IF Ch(s, colon) # ":" THEN NoMatch
             ELSE LET b == SkipIn(s, colon + 1, Whitespace)
                      e == SkipNotIn(s, b, Whitespace)
                  IN  IF e = b THEN NoMatch ELSE Match(i, e, <<SubSeq(s, b, e - 1)>>)

BinlogNameSearch(s) == Search({BinlogNameAt(s, i) : i \in 1..Len(s)})

\* r'BinLogPosition\s*:\s*(\d+)'
BinLogPositionAt(s, i) ==
    IF ~StartsAt(s, i, "BinLogPosition") THEN NoMatch
    ELSE LET colon == SkipIn(s, i + Len("BinLogPosition"), Whitespace)
         IN  IF Ch(s, colon) # ":" THEN NoMatch
             ELSE LET b == SkipIn(s, colon + 1, Whitespace)
                      e == SkipIn(s, b, Digits)
                  IN  IF e = b THEN NoMatch ELSE Match(i, e, <<SubSeq(s, b, e - 1)>>)

BinLogPositionSearch(s) == Search({BinLogPositionAt(s, i) : i \in 1..Len(s)})

\* r'CommitScn:\s*([A-Fa-f0-9]+)'
CommitScnAt(s, i) ==
    IF ~StartsAt(s, i, "CommitScn:") THEN NoMatch
    ELSE LET b == SkipIn(s, i + Len("CommitScn:"), Whitespace)
             e == SkipIn(s, b, HexDigits)
         IN  IF e = b THEN NoMatch ELSE Match(i, e, <<SubSeq(s, b, e - 1)>>)

CommitScnSearch(s) == Search({CommitScnAt(s, i) : i \in 1..Len(s)})

\* r'UTC DateTime value = ([^]]+)'
UtcDateTimeAt(s, i) ==
    IF ~StartsAt(s, i, "UTC DateTime value = ") THEN NoMatch
    ELSE LET b == i + Len("UTC DateTime value = ")
             e == SkipNotIn(s, b, {"]"})
         IN  IF e = b THEN NoMatch ELSE Match(i, e, <<SubSeq(s, b, e - 1)>>)

UtcDateTimeSearch(s) == Search({UtcDateTimeAt(s, i) : i \in 1..Len(s)})

\* r'CommitSCN\[(\d+)\]'
CommitSCNAt(s, i) ==
    IF ~StartsAt(s, i, "CommitSCN[") THEN NoMatch
    ELSE LET b == i + Len("CommitSCN[")
             e == SkipIn(s, b, Digits)
         IN  IF e = b \/ Ch(s, e) # "]" THEN NoMatch
             ELSE Match(i, e + 1, <<SubSeq(s, b, e - 1)>>)

CommitSCNSearch(s) == Search({CommitSCNAt(s, i) : i \in 1..Len(s)})

\* str.replace(old, ''): every non-overlapping occurrence of old, left to right, removed.
RECURSIVE Remove(_, _)
Remove(s, old) ==
    LET occ == {i \in 1..Len(s) : StartsAt(s, i, old)}
    IN  IF occ = {} THEN s
        ELSE LET i == CHOOSE j \in occ : \A k \in occ : j <= k
             IN  SubSeq(s, 1, i - 1) \o Remove(SubSeq(s, i + Len(old), Len(s)), old)

\* Mutant of ExtractPosition: the SQL Server rule tried before the MySQL rule.
ExtractPosition_LsnFirst(position_summary) ==
    LET binlog_match == BinlogNameSearch(position_summary)
        position_match == BinLogPositionSearch(position_summary)
        lsn_match == CommitScnSearch(position_summary)
        mongodb_match == UtcDateTimeSearch(position_summary)
        oracle_scn_match == CommitSCNSearch(position_summary)
    IN  IF lsn_match.found
        THEN [type |-> "sqlserver",
              lsn |-> lsn_match.groups[1],
              format_string |-> "LSN:0x" \o lsn_match.groups[1]]
        ELSE IF binlog_match.found /\ position_match.found
        THEN [type |-> "mysql",
              binlog_name |-> binlog_match.groups[1],
              position |-> position_match.groups[1],
              format_string |-> "FileName:" \o binlog_match.groups[1]
                                \o ";offset:" \o position_match.groups[1]]
        ELSE IF mongodb_match.found
        THEN LET clean_datetime == Remove(mongodb_match.groups[1], ".000Z")
             IN  [type |-> "mongodb",
                  datetime |-> clean_datetime,
                  format_string |-> clean_datetime]
        ELSE IF oracle_scn_match.found
        THEN [type |-> "oracle",
              scn |-> oracle_scn_match.groups[1],
              format_string |-> oracle_scn_match.groups[1]]
        ELSE None

\* Mutant of ExtractPosition: the Oracle rule tried before the MongoDB rule.
ExtractPosition_OracleBeforeMongo(position_summary) ==
    LET binlog_match == BinlogNameSearch(position_summary)
        position_match == BinLogPositionSearch(position_summary)
        lsn_match == CommitScnSearch(position_summary)
        mongodb_match == UtcDateTimeSearch(position_summary)
        oracle_scn_match == CommitSCNSearch(position_summary)
    IN  IF binlog_match.found /\ position_match.found
        THEN [type |-> "mysql",
              binlog_name |-> binlog_match.groups[1],
              position |-> position_match.groups[1],
              format_string |-> "FileName:" \o binlog_match.groups[1]
                                \o ";offset:" \o position_match.groups[1]]
        ELSE IF lsn_match.found
        THEN [type |-> "sqlserver",
              lsn |-> lsn_match.groups[1],
              format_string |-> "LSN:0x" \o lsn_match.groups[1]]
        ELSE IF oracle_scn_match.found
        THEN [type |-> "oracle",
              scn |-> oracle_scn_match.groups[1],
              format_string |-> oracle_scn_match.groups[1]]
        ELSE IF mongodb_match.found
        THEN LET clean_datetime == Remove(mongodb_match.groups[1], ".000Z")
             IN  [type |-> "mongodb",
                  datetime |-> clean_datetime,
                  format_string |-> clean_datetime]
        ELSE None

\* Mutant of ExtractPosition: the MySQL rule accepts either label alone
\* ("or" for "and"), the missing field left empty.
ExtractPosition_EitherLabel(position_summary) ==
    LET binlog_match == BinlogNameSearch(position_summary)
        position_match == BinLogPositionSearch(position_summary)
        lsn_match == CommitScnSearch(position_summary)
        mongodb_match == UtcDateTimeSearch(position_summary)
        oracle_scn_match == CommitSCNSearch(position_summary)
        binlog_name == IF binlog_match.found THEN binlog_match.groups[1] ELSE ""
        position == IF position_match.found THEN position_match.groups[1] ELSE ""
    IN  IF binlog_match.found \/ position_match.found
        THEN [type |-> "mysql",
              binlog_name |-> binlog_name,
              position |-> position,
              format_string |-> "FileName:" \o binlog_name \o ";offset:" \o position]
        ELSE IF lsn_match.found
        THEN [type |-> "sqlserver",
              lsn |-> lsn_match.groups[1],
              format_string |-> "LSN:0x" \o lsn_match.groups[1]]
        ELSE IF mongodb_match.found
        THEN LET clean_datetime == Remove(mongodb_match.groups[1], ".000Z")
             IN  [type |-> "mongodb",
                  datetime |-> clean_datetime,
                  format_string |-> clean_datetime]
        ELSE IF oracle_scn_match.found
        THEN [type |-> "oracle",
              scn |-> oracle_scn_match.groups[1],
              format_string |-> oracle_scn_match.groups[1]]
        ELSE None

\* Mutant of ExtractPosition: the hexadecimal digits of the LSN folded to lower case.
ExtractPosition_LsnFolded(position_summary) ==
    LET binlog_match == BinlogNameSearch(position_summary)
        position_match == BinLogPositionSearch(position_summary)
        lsn_match == CommitScnSearch(position_summary)
        mongodb_match == UtcDateTimeSearch(position_summary)
        oracle_scn_match == CommitSCNSearch(position_summary)
    IN  IF binlog_match.found /\ position_match.found
        THEN [type |-> "mysql",
              binlog_name |-> binlog_match.groups[1],
              position |-> position_match.groups[1],
              format_string |-> "FileName:" \o binlog_match.groups[1]
                                \o ";offset:" \o position_match.groups[1]]
        ELSE IF lsn_match.found
        THEN [type |-> "sqlserver",
              lsn |-> ToLower(lsn_match.groups[1]),
              format_string |-> "LSN:0x" \o ToLower(lsn_match.groups[1])]
        ELSE IF mongodb_match.found
        THEN LET clean_datetime == Remove(mongodb_match.groups[1], ".000Z")
             IN  [type |-> "mongodb",
                  datetime |-> clean_datetime,
                  format_string |-> clean_datetime]
        ELSE IF oracle_scn_match.found
        THEN [type |-> "oracle",
              scn |-> oracle_scn_match.groups[1],
              format_string |-> oracle_scn_match.groups[1]]
        ELSE None

\* Mutant of ExtractPosition: the SCN rendered with a prefix, as the LSN is.
ExtractPosition_ScnPrefixed(position_summary) ==
    LET binlog_match == BinlogNameSearch(position_summary)
        position_match == BinLogPositionSearch(position_summary)
        lsn_match == CommitScnSearch(position_summary)
        mongodb_match == UtcDateTimeSearch(position_summary)
        oracle_scn_match == CommitSCNSearch(position_summary)
    IN  IF binlog_match.found /\ position_match.found
        THEN [type |-> "mysql",
              binlog_name |-> binlog_match.groups[1],
              position |-> position_match.groups[1],
              format_string |-> "FileName:" \o binlog_match.groups[1]
                                \o ";offset:" \o position_match.groups[1]]
        ELSE IF lsn_match.found
        THEN [type |-> "sqlserver",
              lsn |-> lsn_match.groups[1],
              format_string |-> "LSN:0x" \o lsn_match.groups[1]]
        ELSE IF mongodb_match.found
        THEN LET clean_datetime == Remove(mongodb_match.groups[1], ".000Z")
             IN  [type |-> "mongodb",
                  datetime |-> clean_datetime,
                  format_string |-> clean_datetime]
        ELSE IF oracle_scn_match.found
        THEN [type |-> "oracle",
              scn |-> oracle_scn_match.groups[1],
              format_string |-> "SCN:" \o oracle_scn_match.groups[1]]
        ELSE None

\* Lines 321-368: the rules, tried in order on the summary text.
ExtractPosition(position_summary) ==
    LET binlog_match == BinlogNameSearch(position_summary)
        position_match == BinLogPositionSearch(position_summary)
        lsn_match == CommitScnSearch(position_summary)
        mongodb_match == UtcDateTimeSearch(position_summary)
        oracle_scn_match == CommitSCNSearch(position_summary)
    IN  IF binlog_match.found /\ position_match.found
        THEN [type |-> "mysql",
              binlog_name |-> binlog_match.groups[1],
              position |-> position_match.groups[1],
              format_string |-> "FileName:" \o binlog_match.groups[1]
                                \o ";offset:" \o position_match.groups[1]]
        ELSE IF lsn_match.found
        THEN [type |-> "sqlserver",
              lsn |-> lsn_match.groups[1],
              format_string |-> "LSN:0x" \o lsn_match.groups[1]]
        ELSE IF mongodb_match.found
        THEN LET clean_datetime == Remove(mongodb_match.groups[1], ".000Z")
             IN  [type |-> "mongodb",
                  datetime |-> clean_datetime,
                  format_string |-> clean_datetime]
        ELSE IF oracle_scn_match.found
        THEN [type |-> "oracle",
              scn |-> oracle_scn_match.groups[1],
              format_string |-> oracle_scn_match.groups[1]]
        ELSE None

\* What api.execute_command returns: None, or the decoded JSON, a list of result
\* objects, each with or without an 'output' list of checkpoint entries.
ApiNone == [isNone |-> TRUE, list |-> <<>>]

ApiList(l) == [isNone |-> FALSE, list |-> l]

ResultObject(has, out) == [hasOutput |-> has, output |-> out]

\* A checkpoint entry: 'sourcePositionSummary' is missing, JSON null, or a text.
Checkpoint(has, summary) ==
    [hasSummary |-> has, isNull |-> FALSE, sourcePositionSummary |-> summary]

NullCheckpoint == [hasSummary |-> TRUE, isNull |-> TRUE, sourcePositionSummary |-> ""]

ApiReport(summary) == ApiList(<<ResultObject(TRUE, <<Checkpoint(TRUE, summary)>>)>>)

\* Mutant of get_checkpoint_history: the last entry of the history read, not the first.
get_checkpoint_history_LastEntry(res) ==
    IF res.isNone \/ Len(res.list) = 0 THEN None
    ELSE LET first_result == res.list[1]
         IN  IF ~first_result.hasOutput \/ Len(first_result.output) = 0 THEN None
             ELSE LET first_checkpoint == first_result.output[Len(first_result.output)]
                      position_summary ==
                          IF first_checkpoint.hasSummary
                          THEN first_checkpoint.sourcePositionSummary
                          ELSE ""
                  IN  IF first_checkpoint.hasSummary /\ first_checkpoint.isNull
                      THEN None
                      ELSE ExtractPosition(position_summary)

\* Lines 301-372.  re.search on a summary that is not a text (JSON null) raises
\* TypeError inside the try block; the except clause returns None.
get_checkpoint_history(res) ==
    IF res.isNone \/ Len(res.list) = 0 THEN None
    ELSE LET first_result == res.list[1]
         IN  IF ~first_result.hasOutput \/ Len(first_result.output) = 0 THEN None
             ELSE LET first_checkpoint == first_result.output[1]
                      position_summary ==
                          IF first_checkpoint.hasSummary
                          THEN first_checkpoint.sourcePositionSummary
                          ELSE ""
                  IN  IF first_checkpoint.hasSummary /\ first_checkpoint.isNull
                      THEN None
                      ELSE ExtractPosition(position_summary)

(***************************************************************************)
(* get_reader_type: the declaration patterns (re.IGNORECASE).              *)
(***************************************************************************)
\* (?:OR\s+REPLACE\s+)? at index a of lo (0: no match so far): the index after it.
OrReplaceEnd(lo, a) ==
    IF a > 0 /\ StartsAt(lo, a, "or")
    THEN Plus(lo, Lit(lo, Plus(lo, Lit(lo, a, "or"), Whitespace), "replace"), Whitespace)
    ELSE a

\* r'CREATE\s+(?:OR\s+REPLACE\s+)?SOURCE\s+\w+\s+USING\s+' matched at index i of the
\* case-folded text lo: the index after it, or 0.  orReplace tells whether the
\* pattern has the optional group (?:OR\s+REPLACE\s+)?.  The group and its
\* absence exclude each other (the next word is "or" or it is "source").
SourceHeadEnd(lo, i, orReplace) ==
    LET a == Plus(lo, Lit(lo, i, "create"), Whitespace)
        b == IF orReplace THEN OrReplaceEnd(lo, a) ELSE a
    IN  Plus(lo, Lit(lo, Plus(lo, Plus(lo, Plus(lo, Lit(lo, b, "source"), Whitespace),
                                        WordChars), Whitespace), "using"), Whitespace)

\* r'CREATE\s+(?:OR\s+REPLACE\s+)?SOURCE\s+\w+\s+USING\s+Global\.<reader>' at index i.
DeclarationAt(lo, i, reader) == Lit(lo, SourceHeadEnd(lo, i, TRUE), ToLower("Global." \o reader))

\* re.search(<declaration pattern of reader>, content, re.IGNORECASE) finds a match;
\* lo is the case-folded content.
Declares(lo, reader) == \E i \in 1..Len(lo) : DeclarationAt(lo, i, reader) > 0

\* Mutant of get_reader_type: the declaration patterns compared without re.IGNORECASE.
get_reader_type_CaseSensitive(content) ==
    LET Decl(reader) ==
            \E i \in 1..Len(content) :
                LET a == Plus(content, Lit(content, i, "CREATE"), Whitespace)
                    b == IF a > 0 /\ StartsAt(content, a, "OR")
                         THEN Plus(content, Lit(content, Plus(content, Lit(content, a, "OR"),
                                   Whitespace), "REPLACE"), Whitespace)
                         ELSE a
                    c == Plus(content, Lit(content, b, "SOURCE"), Whitespace)
                    d == Plus(content, Plus(content, c, WordChars), Whitespace)
                    e == Plus(content, Lit(content, d, "USING"), Whitespace)
                IN  Lit(content, e, "Global." \o reader) > 0
    IN  IF Decl("MysqlReader") THEN "mysql"
        ELSE IF Decl("MSSqlReader") THEN "sqlserver"
        ELSE IF Decl("MSJet") THEN "sqlserver"
        ELSE IF Decl("MongoDBReader") THEN "mongodb"
        ELSE IF Decl("OracleReader") THEN "oracle"
        ELSE IF Decl("OJet") THEN "oracle"
        ELSE "None"

\* Mutant of get_reader_type: the MongoDB pattern tested after the Oracle patterns.
get_reader_type_OracleFirst(content) ==
    The({IF Declares(lo, "MysqlReader") THEN "mysql"
         ELSE IF Declares(lo, "MSSqlReader") THEN "sqlserver"
         ELSE IF Declares(lo, "MSJet") THEN "sqlserver"
         ELSE IF Declares(lo, "OracleReader") THEN "oracle"
         ELSE IF Declares(lo, "OJet") THEN "oracle"
         ELSE IF Declares(lo, "MongoDBReader") THEN "mongodb"
         ELSE "None" : lo \in {ToLower(content)}})

\* Lines 375-409: the six patterns, tested in this order on the whole content;
\* "None" is Python's None.
get_reader_type(content) ==
    The({IF Declares(lo, "MysqlReader") THEN "mysql"
         ELSE IF Declares(lo, "MSSqlReader") THEN "sqlserver"
         ELSE IF Declares(lo, "MSJet") THEN "sqlserver"
         ELSE IF Declares(lo, "MongoDBReader") THEN "mongodb"
         ELSE IF Declares(lo, "OracleReader") THEN "oracle"
         ELSE IF Declares(lo, "OJet") THEN "oracle"
         ELSE "None" : lo \in {ToLower(content)}})

(***************************************************************************)
(* update_tql_with_position: the patterns, re.sub and the per-reader rules.*)
(***************************************************************************)
\* r"<field>:\s*'NOW'" at index i (StartTimestamp for mysql, StartPosition for sqlserver).
PlaceholderAt(s, i, field) ==
    LET e == Lit(s, Star(s, Lit(s, i, field \o ":"), Whitespace), "'NOW'")
    IN  IF e > 0 THEN Match(i, e, <<>>) ELSE NoMatch

\* r"<field>:\s*'[^']*'" at index i (startTimestamp for mongodb, startSCN for oracle).
\* [^']* runs over line ends up to the next quote of the text.
FieldAt(s, i, field) ==
    LET e == Lit(s, StarNot(s, Lit(s, Star(s, Lit(s, i, field \o ":"), Whitespace), "'"),
                            {"'"}), "'")
    IN  IF e > 0 THEN Match(i, e, <<>>) ELSE NoMatch

\* Global\.<reader> for one of the readers at index h of lo: the index after it.
ReaderEnd(lo, h, readers) ==
    LET ends == {Lit(lo, h, ToLower("Global." \o r)) : r \in readers} \ {0}
    IN  IF ends = {} THEN 0 ELSE CHOOSE x \in ends : TRUE

\* (\s*\)\s*OUTPUT) at index close, the end of group 1 of a match started at i.
ClauseMatch(s, lo, i, close) ==
    LET e == Lit(lo, Star(lo, Lit(s, close, ")"), Whitespace), "output")
    IN  IF e > 0 THEN Match(i, e, <<SubSeq(s, i, close - 1), SubSeq(s, close, e - 1)>>)
        ELSE NoMatch

\* r'(CREATE\s+[(?:OR\s+REPLACE\s+)?]SOURCE\s+\w+\s+USING\s+Global\.<reader>\s*\([^)]+)(\s*\)\s*OUTPUT)'
\* with re.IGNORECASE | re.DOTALL, at index i; lo is the case-folded s.  [^)]+ is
\* greedy: group 1 runs to the first ")" after the "(", group 2 starts at that ")";
\* giving characters back only hands white space to \s*, before the same ")".
SourceClauseAt(s, lo, i, orReplace, readers) ==
    ClauseMatch(s, lo, i,
        PlusNot(s, Lit(lo, Star(lo, ReaderEnd(lo, SourceHeadEnd(lo, i, orReplace), readers),
                                Whitespace), "("), {")"}))

\* The patterns of update_tql_with_position, by name.
PatternAt(pattern, s, lo, i) ==
    CASE pattern = "StartTimestampNOW" -> PlaceholderAt(s, i, "StartTimestamp")
      [] pattern = "StartPositionNOW" -> PlaceholderAt(s, i, "StartPosition")
      [] pattern = "startTimestamp" -> FieldAt(s, i, "startTimestamp")
      [] pattern = "startSCN" -> FieldAt(s, i, "startSCN")
      [] pattern = "MongoSource" -> SourceClauseAt(s, lo, i, FALSE, {"MongoDBReader"})
      [] pattern = "OracleSource" -> SourceClauseAt(s, lo, i, TRUE, {"OracleReader", "OJet"})

\* Number of capturing groups of the pattern.
Groups(pattern) == IF pattern \in {"MongoSource", "OracleSource"} THEN 2 ELSE 0

\* re.search(pattern, s) from index from on.
SearchFrom(pattern, s, lo, from) == Search({PatternAt(pattern, s, lo, i) : i \in from..Len(s)})

ReSearch(pattern, s) == The({SearchFrom(pattern, s, lo, 1) : lo \in {ToLower(s)}})

DigitValue ==
    ("1" :> 1) @@ ("2" :> 2) @@ ("3" :> 3) @@ ("4" :> 4) @@ ("5" :> 5) @@
    ("6" :> 6) @@ ("7" :> 7) @@ ("8" :> 8) @@ ("9" :> 9)

EscapeChar == ("n" :> "\n") @@ ("t" :> "\t") @@ ("r" :> "\r") @@ ("f" :> "\f") @@ ("\\" :> "\\")

\* The replacement template of re.sub, expanded with the groups of a match
\* (sre_parse.parse_template and expand_template).  After a backslash: n, t, r, f
\* and backslash are escapes; a digit 1-9 is a group reference, an error when the
\* pattern has no such group (two digits make a group number no pattern here has);
\* any other ASCII letter is a bad escape; any other character is kept with its
\* backslash; a backslash that ends the template is an error.  The escapes \a \b
\* \v \0 \g<name> and three-digit octal escapes occur in none of the bounded inputs.
RECURSIVE Expand(_, _)
Expand(template, groups) ==
    LET bs == {i \in 1..Len(template) : Ch(template, i) = "\\"}
    IN  IF bs = {} THEN [raised |-> FALSE, text |-> template]
        ELSE LET k == CHOOSE i \in bs : \A j \in bs : i <= j
                 c == Ch(template, k + 1)
                 isGroup == c \in DOMAIN DigitValue
                 bad == \/ c = ""
                        \/ c \in (UpperLetters \cup LowerLetters \cup {"0"}) \ DOMAIN EscapeChar
                        \/ isGroup /\ Ch(template, k + 2) \in Digits
                        \/ isGroup /\ DigitValue[c] > Len(groups)
                 piece == IF c \in DOMAIN EscapeChar THEN EscapeChar[c]
                          ELSE IF isGroup THEN groups[DigitValue[c]]
                          ELSE "\\" \o c
                 rest == Expand(SubSeq(template, k + 2, Len(template)), groups)
             IN  IF bad \/ rest.raised THEN [raised |-> TRUE, text |-> ""]
                 ELSE [raised |-> FALSE, text |-> SubSeq(template, 1, k - 1) \o piece \o rest.text]

\* re.sub from index from on: every non-overlapping match, left to right, replaced
\* by the expanded template (no pattern here matches the empty text); m is the
\* leftmost match from index from on.
RECURSIVE SubFrom(_, _, _, _, _)
SubAt(pattern, template, s, lo, from, m) ==
    IF ~m.found THEN SubSeq(s, from, Len(s))
    ELSE SubSeq(s, from, m.start - 1) \o Expand(template, m.groups).text
         \o SubFrom(pattern, template, s, lo, m.end)

SubFrom(pattern, template, s, lo, from) ==
    The({The({SubAt(pattern, template, s, lo, a, m) : m \in {SearchFrom(pattern, s, lo, a)}}) :
         a \in {from}})

\* re.sub(pattern, template, s): the template is parsed before any match is looked
\* for, so a bad template raises re.error whether or not the pattern matches.
ReSub(pattern, template, s) ==
    The({IF Expand(tpl, [i \in 1..Groups(pattern) |-> ""]).raised
         THEN [raised |-> TRUE, text |-> s]
         ELSE [raised |-> FALSE, text |-> SubFrom(pattern, tpl, s, ToLower(s), 1)] :
         tpl \in {template}})

\* Lines 445-451 (mongodb) and 464-470 (oracle): with a match of the source
\* pattern, the field is put between its two groups.
InsertField(content, field, source_pattern, position_string, match) ==
    IF match.found
    THEN ReSub(source_pattern,
               match.groups[1] \o ", \n  " \o field \o ": '" \o position_string \o "'"
                   \o match.groups[2],
               content)
    ELSE [raised |-> FALSE, text |-> content]

\* Mutant of ReplaceOrInsert: without the test of lines 437 and 456, the field is
\* inserted whether or not one exists.
ReplaceOrInsert_InsertOnly(content, field, source_pattern, position_string) ==
    The({InsertField(content, field, source_pattern, position_string, match) :
         match \in {ReSearch(source_pattern, content)}})

\* Lines 434-451 (mongodb) and 453-470 (oracle): replace the field where one
\* exists, else insert it before the ")" of the source clause.
ReplaceOrInsert(content, field, source_pattern, position_string) ==
    IF ReSearch(field, content).found
    THEN ReSub(field, field \o ": '" \o position_string \o "'", content)
    ELSE The({InsertField(content, field, source_pattern, position_string, match) :
              match \in {ReSearch(source_pattern, content)}})

\* Lines 419-470: updated_content, or the exception re.sub raised.
UpdatedContent(content, rtype, position_string) ==
    CASE rtype = "mysql" ->
            ReSub("StartTimestampNOW", "StartTimestamp: '" \o position_string \o "'", content)
      [] rtype = "sqlserver" ->
            ReSub("StartPositionNOW", "StartPosition: '" \o position_string \o "'", content)
      [] rtype = "mongodb" ->
            ReplaceOrInsert(content, "startTimestamp", "MongoSource", position_string)
      [] rtype = "oracle" ->
            ReplaceOrInsert(content, "startSCN", "OracleSource", position_string)
      [] OTHER -> [raised |-> FALSE, text |-> content]

\* Mutant of Written: without the test of lines 473-474, the file is written and
\* True returned whether or not a replacement was made.
Written_Always(content, u) ==
    IF u.raised THEN [ret |-> FALSE, content |-> content, wrote |-> FALSE]
    ELSE [ret |-> TRUE, content |-> u.text, wrote |-> TRUE]

\* Mutant of Written: the file opened for writing before the update is computed,
\* so that an exception leaves it empty.
Written_OpenedFirst(content, u) ==
    IF u.raised THEN [ret |-> FALSE, content |-> "", wrote |-> TRUE]
    ELSE IF u.text = content THEN [ret |-> FALSE, content |-> content, wrote |-> FALSE]
    ELSE [ret |-> TRUE, content |-> u.text, wrote |-> TRUE]

\* Lines 472-484: the value returned, the content of the file afterwards, and
\* whether the file was opened for writing, for the updated content u.  An
\* exception (re.error) is caught at line 482: False, and the file is not touched.
Written(content, u) ==
    IF u.raised THEN [ret |-> FALSE, content |-> content, wrote |-> FALSE]
    ELSE IF u.text = content THEN [ret |-> FALSE, content |-> content, wrote |-> FALSE]
    ELSE [ret |-> TRUE, content |-> u.text, wrote |-> TRUE]

\* Lines 412-484.
update_tql_with_position(content, rtype, info) ==
    The({Written(content, u) : u \in {UpdatedContent(content, rtype, info.format_string)}})

(***************************************************************************)
(* Processing of one application (main, lines 593-635), step by step.      *)
(***************************************************************************)
\* Lines 377-379 and 407-409: a file that cannot be read gives None.
\* Lines 586-591: the counters of the run summary.
ZeroCounts ==
    [mysql_reader_count |-> 0, sqlserver_reader_count |-> 0, mongodb_reader_count |-> 0,
     oracle_reader_count |-> 0, checkpoint_data_count |-> 0, updated_count |-> 0]

\* Mutant of CountReader: only the MySQL readers are counted.
CountReader_MysqlOnly(c, rtype) ==
    IF rtype = "mysql" THEN [c EXCEPT !.mysql_reader_count = @ + 1] ELSE c

\* Lines 601-612: the counter of the reader family.
CountReader(c, rtype) ==
    IF rtype = "mysql" THEN [c EXCEPT !.mysql_reader_count = @ + 1]
    ELSE IF rtype = "sqlserver" THEN [c EXCEPT !.sqlserver_reader_count = @ + 1]
    ELSE IF rtype = "mongodb" THEN [c EXCEPT !.mongodb_reader_count = @ + 1]
    ELSE IF rtype = "oracle" THEN [c EXCEPT !.oracle_reader_count = @ + 1]
    ELSE c

\* Lines 617-621: an application with checkpoint data is counted.
CountCheckpoint(c, info) ==
    IF info = [type |-> "None"] THEN c ELSE [c EXCEPT !.checkpoint_data_count = @ + 1]

\* Lines 625-626: an updated TQL file is counted.
CountUpdated(c, ret) ==
    IF ret THEN [c EXCEPT !.updated_count = @ + 1] ELSE c

ReadAndClassify(canRead, content) == IF canRead THEN get_reader_type(content) ELSE "None"

\* An application of the run: the content of its TQL file, what the server answers
\* to SHOW <app> CHECKPOINT HISTORY, and whether its file can be read.
App(content, res, canRead) == [file |-> content, result |-> res, readable |-> canRead]

\* Mutant of GetReaderType: without the test of lines 597-599, an unrecognized
\* document goes on to the checkpoint lookup.
GetReaderType_NoSkip ==
    /\ pc = "classify"
    /\ \E r \in {ReadAndClassify(readable, file)} :
           /\ reader_type' = r
           /\ counts' = CountReader(counts, r)
    /\ pc' = "checkpoint"
    /\ UNCHANGED <<result, position_info, file, file0, updated, writes,
                   apps, outcomes, readable>>
    /\ UNCHANGED outsideLoop

\* Lines 596-613: the classification; an unrecognized document is skipped.
GetReaderType ==
    /\ pc = "classify"
    /\ \E r \in {ReadAndClassify(readable, file)} :
           /\ reader_type' = r
           /\ pc' = IF r = "None" THEN "skipped" ELSE "checkpoint"
           /\ counts' = CountReader(counts, r)
    /\ UNCHANGED <<result, position_info, file, file0, updated, writes,
                   apps, outcomes, readable>>
    /\ UNCHANGED outsideLoop

\* Lines 616-622: the checkpoint lookup; no descriptor ends the application's processing.
GetCheckpointHistory ==
    /\ pc = "checkpoint"
    /\ \E p \in {get_checkpoint_history(result)} :
           /\ position_info' = p
           /\ pc' = IF p = None THEN "nodata" ELSE "update"
           /\ counts' = CountCheckpoint(counts, p)
    /\ UNCHANGED <<result, file, file0, reader_type, updated, writes,
                   apps, outcomes, readable>>
    /\ UNCHANGED outsideLoop

\* Lines 624-635: the update of the TQL file.
UpdateTqlWithPosition ==
    /\ pc = "update"
    /\ \E r \in {update_tql_with_position(file, reader_type, position_info)} :
           /\ file' = r.content
           /\ updated' = r.ret
           /\ writes' = IF r.wrote THEN writes + 1 ELSE writes
           /\ counts' = CountUpdated(counts, r.ret)
    /\ pc' = "done"
    /\ UNCHANGED <<result, position_info, file0, reader_type, apps, outcomes, readable>>
    /\ UNCHANGED outsideLoop

(***************************************************************************)
(* The command line of the exporter (main, lines 487-523) and config.py.   *)
(***************************************************************************)
STRIIM_CONFIG_EXPORT ==
    [url |-> "http://localhost:9080", username |-> "admin", password |-> "admin",
     passphrase |-> "striim123"]

ENVIRONMENTS ==
    [development |-> [url |-> "http://localhost:9080", username |-> "admin",
                      password |-> "admin", passphrase |-> "dev123"],
     staging     |-> [url |-> "http://staging-striim:9080", username |-> "striim_user",
                      password |-> "staging_password", passphrase |-> "staging456"],
     production  |-> [url |-> "https://prod-striim:9081", username |-> "prod_user",
                      password |-> "prod_password", passphrase |-> "prod789secure"]]

\* config.py, lines 89-104.  The parser admits no other environment name (line 505).
get_config(environment) ==
    IF environment = "default" THEN STRIIM_CONFIG_EXPORT ELSE ENVIRONMENTS[environment]

Options == {"url", "username", "password", "passphrase"}

\* An option of the command line: <<>> when it is not given, <<v>> when given as v.
OptionValue(given, default) == IF given = <<>> THEN default ELSE given[1]

\* Lines 489-509: an option that is not given takes the default configuration's value.
ParseArgs(line) ==
    [environment |-> line.environment,
     url         |-> OptionValue(line.url, get_config("default").url),
     username    |-> OptionValue(line.username, get_config("default").username),
     password    |-> OptionValue(line.password, get_config("default").password),
     passphrase  |-> OptionValue(line.passphrase, get_config("default").passphrase)]

\* Lines 516-523: the test of one option.
Override(value, default, configured) == IF value = default THEN configured ELSE value

\* Lines 512-523.
EnvironmentOverride(a) ==
    IF a.environment # "default"
    THEN [environment |-> a.environment,
          url         |-> Override(a.url, get_config("default").url,
                                   get_config(a.environment).url),
          username    |-> Override(a.username, get_config("default").username,
                                   get_config(a.environment).username),
          password    |-> Override(a.password, get_config("default").password,
                                   get_config(a.environment).password),
          passphrase  |-> Override(a.passphrase, get_config("default").passphrase,
                                   get_config(a.environment).passphrase)]
    ELSE a

\* A command line without options.
NoOptions ==
    [environment |-> "default", url |-> <<>>, username |-> <<>>, password |-> <<>>,
     passphrase |-> <<>>]

(***************************************************************************)
(* What the variables of one program hold while another one runs.          *)
(***************************************************************************)
\* The exit status of a run that has not ended: none (sys.exit(1) gives <<1>>).
NoExit == <<>>

\* The importer before its main starts (striim_import_apps.py).
ImporterNotStarted ==
    [force |-> FALSE, deploy |-> FALSE, token |-> FALSE, tql_files |-> <<>>,
     processed |-> 0, app_name |-> <<>>, removal |-> <<>>, imported_count |-> 0,
     deployed_count |-> 0, failed_count |-> 0]

\* Lines 533-584 have succeeded when the processing loop is entered: the token is
\* set, the applications were listed, exported and extracted.
LoopEntered ==
    /\ run = [token |-> TRUE, droptypes |-> "not requested", no_overwrite |-> FALSE,
              app_names |-> apps, exported |-> TRUE, exit_status |-> NoExit,
              failed |-> "", written |-> 1..Len(apps),
              steps |-> <<"authenticate", "list", "export", "extract">>]
    /\ argv = NoOptions
    /\ args = EnvironmentOverride(ParseArgs(NoOptions))
    /\ importer = ImporterNotStarted
    /\ requests = <<>>

(***************************************************************************)
(* Bounded inputs.                                                         *)
(***************************************************************************)
MaxReportParts == 3

\* Pieces of checkpoint summaries: whole labels of the four families, labels cut
\* short, and text between them.
ReportParts ==
    {"BinlogName: bin.01\n", "BinlogName :", "BinLogPosition: 456 ", "BinLogPosition:",
     "CommitScn: 2aF ", "CommitScn:", "UTC DateTime value = ", ".000Z", "]",
     "CommitSCN[307]", "CommitSCN[", "307", " ", "a\\1", "T20:48",
     "{OpenSCN[306]-CommitSCN[308]-SeqNum[2]}"}

Summaries == Texts(ReportParts, MaxReportParts)

\* Responses with no usable first entry.
MissingReports ==
    {ApiNone,
     ApiList(<<>>),
     ApiList(<<ResultObject(FALSE, <<>>)>>),
     ApiList(<<ResultObject(TRUE, <<>>)>>),
     ApiList(<<ResultObject(TRUE, <<Checkpoint(FALSE, "")>>)>>),
     ApiList(<<ResultObject(TRUE, <<NullCheckpoint>>)>>)}

\* Summaries of the entries of a history with several entries.
EntrySummaries == {"", "a\\1", "CommitScn: 2aF ", "CommitSCN[307]", "UTC DateTime value = T20:48]"}

\* Responses with more than the first entry: two entries in the 'output' list of
\* the first result object (the first one with a text, without the key, or null),
\* and a second result object after a first one with one entry or none.
LaterEntryReports ==
    {ApiList(<<ResultObject(TRUE, <<first, Checkpoint(TRUE, later)>>)>>) :
        first \in {Checkpoint(TRUE, s) : s \in EntrySummaries}
                  \cup {Checkpoint(FALSE, ""), NullCheckpoint},
        later \in EntrySummaries}
    \cup {ApiList(<<first, ResultObject(TRUE, <<Checkpoint(TRUE, later)>>)>>) :
        first \in {ResultObject(TRUE, <<Checkpoint(TRUE, s)>>) : s \in EntrySummaries}
                  \cup {ResultObject(TRUE, <<>>), ResultObject(FALSE, <<>>)},
        later \in EntrySummaries}

Reports == MissingReports \cup {ApiReport(s) : s \in Summaries} \cup LaterEntryReports

\* A MySQL document with its placeholder, as exported.
MySqlDoc == "CREATE SOURCE s USING Global.MysqlReader (\n StartTimestamp: 'NOW'\n) OUTPUT TO o;\n"

(***************************************************************************)
(* SpecExtract: get_checkpoint_history applied to every bounded response.  *)
(***************************************************************************)
InitExtract ==
    /\ pc = "checkpoint"
    /\ result \in Reports
    /\ position_info = None
    /\ file = MySqlDoc
    /\ file0 = MySqlDoc
    /\ reader_type = "mysql"
    /\ updated = FALSE
    /\ writes = 0
    /\ apps = <<App(file, result, TRUE)>>
    /\ outcomes = <<>>
    /\ readable = TRUE
    /\ LoopEntered
    /\ counts = CountReader(ZeroCounts, reader_type)

NextExtract == GetCheckpointHistory

SpecExtract == InitExtract /\ [][NextExtract]_vars

\* The summary text of the response's first entry ("" when there is none).
SummaryOf(res) ==
    IF \/ res.isNone
       \/ Len(res.list) = 0
       \/ ~res.list[1].hasOutput
       \/ Len(res.list[1].output) = 0
       \/ ~res.list[1].output[1].hasSummary
       \/ res.list[1].output[1].isNull
    THEN ""
    ELSE res.list[1].output[1].sourcePositionSummary

Extracted == pc \in {"nodata", "update"}

HasBinlogName(s) == \E i \in 1..Len(s) : BinlogNameAt(s, i).found

HasBinLogPosition(s) == \E i \in 1..Len(s) : BinLogPositionAt(s, i).found

HasCommitScn(s) == \E i \in 1..Len(s) : CommitScnAt(s, i).found

HasUtcDateTime(s) == \E i \in 1..Len(s) : UtcDateTimeAt(s, i).found

HasCommitSCN(s) == \E i \in 1..Len(s) : CommitSCNAt(s, i).found

\* C1: a summary holding both a BinlogName label (value X) and a BinLogPosition
\* label (value N) yields the mysql descriptor of X and N, rendered
\* FileName:X;offset:N, whatever labels of the other families it also holds.
C1_MySqlBothLabels ==
    LET s == SummaryOf(result)
    IN  (Extracted /\ HasBinlogName(s) /\ HasBinLogPosition(s)) =>
            LET X == BinlogNameSearch(s).groups[1]
                N == BinLogPositionSearch(s).groups[1]
            IN  /\ pc = "update"
                /\ position_info = [type |-> "mysql", binlog_name |-> X, position |-> N,
                                    format_string |-> "FileName:" \o X \o ";offset:" \o N]

C1_Witness ==
    LET s == SummaryOf(result)
    IN  /\ Extracted
        /\ HasBinlogName(s) /\ HasBinLogPosition(s) /\ HasCommitScn(s)
        /\ position_info.type = "mysql"
        /\ position_info.format_string = "FileName:bin.01;offset:456"
\* The family of the first rule, in the order MySQL, SQL Server, MongoDB, Oracle,
\* whose pattern matches the summary.
FirstRule(s) ==
    IF HasBinlogName(s) /\ HasBinLogPosition(s) THEN "mysql"
    ELSE IF HasCommitScn(s) THEN "sqlserver"
    ELSE IF HasUtcDateTime(s) THEN "mongodb"
    ELSE IF HasCommitSCN(s) THEN "oracle"
    ELSE "None"

\* Some label of the summary starts before the first label of the family returned.
LaterRuleStartsFirst(s) ==
    \/ /\ FirstRule(s) = "sqlserver"
       /\ HasCommitSCN(s)
       /\ CommitSCNSearch(s).start < CommitScnSearch(s).start
    \/ /\ FirstRule(s) = "mongodb"
       /\ HasCommitSCN(s)
       /\ CommitSCNSearch(s).start < UtcDateTimeSearch(s).start

\* C2: the descriptor is that of the first rule, in the order MySQL, SQL Server,
\* MongoDB, Oracle, whose pattern matches, wherever the labels stand in the text.
C2_RulePriority ==
    Extracted => position_info.type = FirstRule(SummaryOf(result))

C2_Witness ==
    LET s == SummaryOf(result)
    IN  /\ Extracted
        /\ LaterRuleStartsFirst(s)
        /\ FirstRule(s) = "mongodb"
        /\ position_info.type = "mongodb"

\* Every field of the descriptor's family, and its rendered form, is a non-empty text.
Populated(d) ==
    /\ d.format_string # ""
    /\ d.type = "mysql" => (d.binlog_name # "" /\ d.position # "")
    /\ d.type = "sqlserver" => d.lsn # ""
    /\ d.type = "mongodb" => d.datetime # ""
    /\ d.type = "oracle" => d.scn # ""

\* C3: with only one of the labels BinlogName / BinLogPosition the MySQL rule
\* falls through (never a mysql descriptor; None when no later rule matches), and
\* every descriptor returned has all its fields and its rendered form populated.
C3_NoPartialDescriptor ==
    LET s == SummaryOf(result)
    IN  Extracted =>
            /\ (HasBinlogName(s) # HasBinLogPosition(s)) =>
                    /\ position_info.type # "mysql"
                    /\ FirstRule(s) = "None" => position_info = None
            /\ position_info # None => Populated(position_info)

\* C4: a summary no rule matches, and a missing or empty report (no response, an
\* empty list, no 'output', an empty 'output', an entry without a usable
\* 'sourcePositionSummary'), give None, the normal outcome that ends the
\* application's processing.
C4_AbsenceIsNone ==
    (Extracted /\ (result \in MissingReports \/ FirstRule(SummaryOf(result)) = "None")) =>
        (position_info = None /\ pc = "nodata")

C4_Witness ==
    /\ Extracted
    /\ result \notin MissingReports
    /\ HasBinlogName(SummaryOf(result))
    /\ HasCommitSCN(SummaryOf(result) \o "307]")
    /\ position_info = None

MaxDeclParts == 2

\* Pieces of TQL documents for the classification: source declarations of the six
\* readers in several spellings, and declarations the patterns do not accept.
DeclParts ==
    {"CREATE SOURCE a USING Global.MysqlReader (\n",
     "create or replace source b using global.mssqlreader (\n",
     "CREATE OR REPLACE SOURCE c USING Global.MSJet (\n",
     "CREATE SOURCE d USING Global.MongoDBReader (\n",
     "Create Source e Using Global.OracleReader (\n",
     "CREATE  OR\nREPLACE SOURCE f USING Global.OJet (\n",
     "CREATE SOURCE g USING Global.FileReader (\n",
     "CREATE SOURCE ns.h USING Global.OJet (\n",
     "CREATE TARGET t USING Global.MysqlReader (\n",
     " x: 'y'\n) OUTPUT TO s;\n"}

DeclDocs == Texts(DeclParts, MaxDeclParts)

(***************************************************************************)
(* SpecClassify: get_reader_type applied to every bounded document.        *)
(***************************************************************************)
InitClassify ==
    /\ pc = "classify"
    /\ result = ApiNone
    /\ position_info = None
    /\ file \in DeclDocs
    /\ file0 = file
    /\ reader_type = "None"
    /\ updated = FALSE
    /\ writes = 0
    /\ apps = <<App(file, result, TRUE)>>
    /\ outcomes = <<>>
    /\ readable = TRUE
    /\ LoopEntered
    /\ counts = ZeroCounts

NextClassify == GetReaderType

SpecClassify == InitClassify /\ [][NextClassify]_vars

Classified == pc \in {"skipped", "checkpoint"}

Readers == {"MysqlReader", "MSSqlReader", "MSJet", "MongoDBReader", "OracleReader", "OJet"}

FamilyOf ==
    ("MysqlReader" :> "mysql") @@ ("MSSqlReader" :> "sqlserver") @@ ("MSJet" :> "sqlserver") @@
    ("MongoDBReader" :> "mongodb") @@ ("OracleReader" :> "oracle") @@ ("OJet" :> "oracle")

\* The readers the document declares a source with, and their families.
DeclaredReaders(doc) == {r \in Readers : Declares(ToLower(doc), r)}

DeclaredFamilies(doc) == {FamilyOf[r] : r \in DeclaredReaders(doc)}

\* Start index of the first declaration of reader r in the document.
FirstDeclarationOf(doc, r) ==
    LET lo == ToLower(doc)
    IN  CHOOSE i \in 1..Len(doc) :
            /\ DeclarationAt(lo, i, r) > 0
            /\ \A j \in 1..(i - 1) : DeclarationAt(lo, j, r) = 0

\* The family of the declaration that stands first in the document.
FirstDeclaredFamily(doc) ==
    LET rs == DeclaredReaders(doc)
        r == CHOOSE x \in rs : \A y \in rs : FirstDeclarationOf(doc, x) <= FirstDeclarationOf(doc, y)
    IN  FamilyOf[r]

\* The first family, in the order the patterns are tested, among those declared.
FirstFamilyInPatternOrder(doc) ==
    LET fs == DeclaredFamilies(doc)
    IN  IF "mysql" \in fs THEN "mysql"
        ELSE IF "sqlserver" \in fs THEN "sqlserver"
        ELSE IF "mongodb" \in fs THEN "mongodb"
        ELSE "oracle"

\* C5: the classification is None exactly when the document holds no source
\* declaration (CREATE [OR REPLACE] SOURCE <name> USING Global.<reader>, in any
\* letter case) of one of the six readers; a family returned is the family of a
\* reader the document declares, and a document declaring readers of one family
\* is classified with that family (MysqlReader: mysql; MSSqlReader, MSJet:
\* sqlserver; MongoDBReader: mongodb; OracleReader, OJet: oracle).
C5_Classification ==
    Classified =>
        /\ reader_type = "None" <=> DeclaredReaders(file) = {}
        /\ reader_type # "None" => reader_type \in DeclaredFamilies(file)
        /\ \A f \in {"mysql", "sqlserver", "mongodb", "oracle"} :
                DeclaredFamilies(file) = {f} => reader_type = f

C5_Witness ==
    /\ Classified
    /\ DeclaredReaders(file) = {"MSSqlReader"}
    /\ file = ToLower(file)
    /\ reader_type = "sqlserver"

\* C6 as stated: with declarations of several families, the classification is the
\* family of the declaration that stands first in the document.
C6_FirstInDocument ==
    (Classified /\ Cardinality(DeclaredFamilies(file)) > 1) =>
        reader_type = FirstDeclaredFamily(file)

\* C6 amended: with declarations of several families, the classification is the
\* family that comes first in the order mysql, sqlserver, mongodb, oracle among
\* the families declared, wherever in the document the declarations stand.
C6_FirstInPatternOrder ==
    (Classified /\ Cardinality(DeclaredFamilies(file)) > 1) =>
        reader_type = FirstFamilyInPatternOrder(file)

C6_Witness ==
    /\ Classified
    /\ Cardinality(DeclaredFamilies(file)) > 1
    /\ FirstDeclaredFamily(file) = "oracle"
    /\ reader_type = "mongodb"

(***************************************************************************)
(* SpecReplace, SpecInsert: the processing of one application (classify,   *)
(* look the checkpoint up, update the file), for documents of the          *)
(* placeholder readers and of the replace-or-insert readers.               *)
(***************************************************************************)
\* Checkpoint responses of the four families, one with a backslash in the binlog
\* name, and no response.
AppReports ==
    {ApiNone,
     ApiReport("BinlogName: bin.01\nBinLogPosition: 456 "),
     ApiReport("BinlogName: b\\1\nBinLogPosition: 4"),
     ApiReport("CommitScn: 2aF"),
     ApiReport("UTC DateTime value = 2025-10-02T20:48:28.000Z]"),
     ApiReport("{OpenSCN[306]-CommitSCN[307]-SeqNum[2]}")}

MaxReplaceParts == 3

\* Pieces of MySQL / SQL Server documents: declarations, the placeholders in
\* several spellings, a start position already set, other text.
ReplaceParts ==
    {"CREATE SOURCE s USING Global.MysqlReader (\n",
     "CREATE OR REPLACE SOURCE q USING Global.MSSqlReader (\n",
     " StartTimestamp: 'NOW',\n",
     " StartTimestamp:\t'NOW',\n",
     " StartPosition: 'NOW',\n",
     " StartTimestamp: 'FileName:bin.01;offset:456',\n",
     " StartTimestamp: 'now',\n",
     " a: 'b'\n) OUTPUT TO o;\n"}

ReplaceDocs == Texts(ReplaceParts, MaxReplaceParts)

MaxInsertParts == 3

\* Pieces of MongoDB / Oracle documents: declarations with and without OR REPLACE,
\* the fields, another option, the end of the clause.
InsertParts ==
    {"CREATE SOURCE m USING Global.MongoDBReader (\n",
     "CREATE OR REPLACE SOURCE m USING Global.MongoDBReader (\n",
     "CREATE SOURCE o USING Global.OracleReader (\n",
     "CREATE OR REPLACE SOURCE o USING Global.OJet (\n",
     " a: 'b'\n",
     " startTimestamp: '2024',\n",
     " startSCN: '7',\n",
     ") OUTPUT TO s;\n"}

InsertDocs == Texts(InsertParts, MaxInsertParts)

InitApp(docs, reports) ==
    /\ pc = "classify"
    /\ result \in reports
    /\ position_info = None
    /\ file \in docs
    /\ file0 = file
    /\ reader_type = "None"
    /\ updated = FALSE
    /\ writes = 0
    /\ apps = <<App(file, result, TRUE)>>
    /\ outcomes = <<>>
    /\ readable = TRUE
    /\ LoopEntered
    /\ counts = ZeroCounts

\* Lines 593-635 for one application.
NextApp ==
    \/ GetReaderType
    \/ GetCheckpointHistory
    \/ UpdateTqlWithPosition

InitReplace == InitApp(ReplaceDocs, AppReports)

SpecReplace == InitReplace /\ [][NextApp]_vars

\* No response, a MySQL summary with a backslash, MongoDB summaries (one with a
\* quote in the literal) and an Oracle summary.
InsertReports ==
    {ApiNone,
     ApiReport("BinlogName: b\\1\nBinLogPosition: 4"),
     ApiReport("UTC DateTime value = 2025-10-02T20:48:28.000Z]"),
     ApiReport("UTC DateTime value = 2025'10]"),
     ApiReport("{OpenSCN[306]-CommitSCN[307]-SeqNum[2]}")}

InitInsert == InitApp(InsertDocs, InsertReports)

SpecInsert == InitInsert /\ [][NextApp]_vars

Done == pc = "done"

\* The start-position field of the placeholder readers (lines 424, 430).
StartField(rtype) == IF rtype = "mysql" THEN "StartTimestamp" ELSE "StartPosition"

\* Number of places of s where the literal lit stands.
Occurrences(s, lit) == Cardinality({i \in 1..Len(s) : StartsAt(s, i, lit)})

\* The places of s where <field>: 'NOW' stands, any white space after the colon.
Placeholders(s, field) == {i \in 1..Len(s) : PlaceholderAt(s, i, field).found}

\* t is s with the text from index i up to (not including) index e replaced by new.
Spliced(s, i, e, new, t) == t = SubSeq(s, 1, i - 1) \o new \o SubSeq(s, e, Len(s))

\* C7 as stated: a mysql (sqlserver) document that contains StartTimestamp: 'NOW'
\* (StartPosition: 'NOW'), updated with a descriptor rendered R, holds exactly one
\* occurrence of StartTimestamp: 'R' (StartPosition: 'R'), and is the original
\* document with one placeholder replaced by it, every other byte the same.
C7_ExactlyOneReplaced ==
    LET field == StartField(reader_type)
        new == field \o ": '" \o position_info.format_string \o "'"
    IN  (/\ Done
         /\ reader_type \in {"mysql", "sqlserver"}
         /\ Occurrences(file0, field \o ": 'NOW'") > 0)
        => /\ Occurrences(file, new) = 1
           /\ \E i \in Placeholders(file0, field) :
                  Spliced(file0, i, PlaceholderAt(file0, i, field).end, new, file)

\* C8 as stated: a mysql (sqlserver) document that does not contain the literal
\* StartTimestamp: 'NOW' (StartPosition: 'NOW') is not changed: False is returned,
\* the file is not written and keeps its bytes, and no start-position field is added.
C8_NoLiteralNoChange ==
    LET field == StartField(reader_type)
    IN  (/\ Done
         /\ reader_type \in {"mysql", "sqlserver"}
         /\ Occurrences(file0, field \o ": 'NOW'") = 0)
        => /\ ~updated
           /\ writes = 0
           /\ file = file0

\* C8 amended: a mysql (sqlserver) document with no StartTimestamp: (StartPosition:)
\* followed, after any white space, by the quoted value 'NOW' is not changed: False
\* is returned, the file is not written and keeps its bytes, and no start-position
\* field is added.
C8_NoPlaceholderNoChange ==
    LET field == StartField(reader_type)
    IN  (/\ Done
         /\ reader_type \in {"mysql", "sqlserver"}
         /\ Placeholders(file0, field) = {})
        => /\ ~updated
           /\ writes = 0
           /\ file = file0
           /\ Occurrences(file, field) = Occurrences(file0, field)

\* A mysql document whose StartTimestamp field holds 'now', not 'NOW', went through
\* the update and stayed as it was.
C8_Witness ==
    /\ Done
    /\ reader_type = "mysql"
    /\ position_info.type = "mysql"
    /\ Occurrences(file0, "StartTimestamp: 'now'") > 0
    /\ Placeholders(file0, "StartTimestamp") = {}
    /\ ~updated
    /\ file = file0

\* The places of s where a source clause of the reader starts: the declaration
\* CREATE [OR REPLACE] SOURCE <name> USING Global.<reader>, "(", the options, and
\* the ")" that stands before OUTPUT.
Clauses(s, readers) ==
    {i \in 1..Len(s) : SourceClauseAt(s, ToLower(s), i, TRUE, readers).found}

\* The places of s where <field>: '<anything>' stands.
Fields(s, field) == {i \in 1..Len(s) : FieldAt(s, i, field).found}

\* The two-path rule for a field and the readers of a family, between the document
\* d before and the document t after, with changed the value returned: a field
\* that exists holds the value afterwards, the text before it as it was; else the
\* field is inserted, after a comma and a line end, just before the ")" of the
\* source clause; else nothing changes.
TwoPathRule(d, t, changed, field, readers, value) ==
    LET new == field \o ": '" \o value \o "'"
    IN  IF Fields(d, field) # {}
        THEN \E i \in Fields(d, field) :
                 /\ SubSeq(t, 1, i - 1) = SubSeq(d, 1, i - 1)
                 /\ StartsAt(t, i, new)
        ELSE IF Clauses(d, readers) # {}
        THEN /\ changed
             /\ \E i \in Clauses(d, readers) :
                    LET m == SourceClauseAt(d, ToLower(d), i, TRUE, readers)
                        close == i + Len(m.groups[1])
                    IN  Spliced(d, close, close, ", \n  " \o new, t)
        ELSE ~changed /\ t = d

\* C9 as stated: a mongodb document updated with a timestamp follows the two-path
\* rule: an existing startTimestamp field gets the rendered value; otherwise the
\* field is inserted, after a comma and a line end, just before the ")" of the
\* MongoDBReader source clause that stands before OUTPUT; with no such clause the
\* document is unchanged and False is returned.
C9_MongoTwoPaths ==
    (Done /\ reader_type = "mongodb" /\ position_info.type = "mongodb")
        => TwoPathRule(file0, file, updated, "startTimestamp", {"MongoDBReader"},
                       position_info.format_string)

\* str.replace(old, new): every non-overlapping occurrence of old, left to right.
RECURSIVE Replace(_, _, _)
Replace(s, old, new) ==
    LET occ == {i \in 1..Len(s) : StartsAt(s, i, old)}
    IN  IF occ = {} THEN s
        ELSE LET i == CHOOSE j \in occ : \A k \in occ : j <= k
             IN  SubSeq(s, 1, i - 1) \o new \o Replace(SubSeq(s, i + Len(old), Len(s)), old, new)

\* The Oracle document d renamed to MongoDB: reader tokens and field name.
Renamed(d) ==
    Replace(Replace(Replace(d, "Global.OracleReader", "Global.MongoDBReader"),
                    "Global.OJet", "Global.MongoDBReader"),
            "startSCN", "startTimestamp")

\* C10 as stated: the update of an oracle document D (declared with OracleReader
\* or OJet, with or without OR REPLACE) and the mongodb update of D renamed (reader
\* token to Global.MongoDBReader, startSCN to startTimestamp) with the same value
\* agree: one changes exactly when the other does, and the results are the same
\* up to the renaming.
C10_OracleAsMongoRenamed ==
    (/\ Done
     /\ reader_type = "oracle"
     /\ position_info.type = "oracle"
     /\ Occurrences(file0, "startTimestamp") = 0)
        => LET r == update_tql_with_position(Renamed(file0), "mongodb", position_info)
           IN  /\ updated <=> r.ret
               /\ Renamed(file) = r.content

(***************************************************************************)
(* SpecReapply: one application of a placeholder reader, with binlog names *)
(* that hold quotes; the update is applied a second time to the result.    *)
(***************************************************************************)
MaxReapplyParts == 3

ReapplyParts ==
    {"CREATE SOURCE s USING Global.MysqlReader (\n",
     "CREATE SOURCE q USING Global.MSSqlReader (\n",
     " StartTimestamp: 'NOW',\n",
     " StartPosition: 'NOW',\n",
     " a: 'b'\n) OUTPUT TO o;\n"}

ReapplyDocs == Texts(ReapplyParts, MaxReapplyParts)

\* No response, the usual MySQL and SQL Server summaries, and MySQL summaries whose
\* binlog name (any run of non-white-space characters) holds quotes, or a
\* backslash and the letter n.
ReapplyReports ==
    {ApiNone,
     ApiReport("BinlogName: bin.01\nBinLogPosition: 456 "),
     ApiReport("BinlogName: b\\n1\nBinLogPosition: 4"),
     ApiReport("BinlogName: x'y\nBinLogPosition: 4"),
     ApiReport("BinlogName: x'StartTimestamp:'NOW'y\nBinLogPosition: 4"),
     ApiReport("CommitScn: 2aF")}

InitReapply == InitApp(ReapplyDocs, ReapplyReports)

SpecReapply == InitReapply /\ [][NextApp]_vars

\* The outcome of update_tql_with_position that changes nothing in the text d.
NoChange(d) == [ret |-> FALSE, content |-> d, wrote |-> FALSE]

\* C11 as stated: once the update of a mysql (sqlserver) document has replaced the
\* 'NOW' placeholder with the rendered form of a descriptor, the update applied
\* again with the same descriptor returns False and leaves the document as the
\* first update left it.
C11_SecondCallNoChange ==
    (Done /\ updated /\ reader_type \in {"mysql", "sqlserver"})
        => update_tql_with_position(file, reader_type, position_info) = NoChange(file)

\* The position field of the replace-or-insert readers (lines 436, 455).
PositionField(rtype) == IF rtype = "mongodb" THEN "startTimestamp" ELSE "startSCN"

MatchFound(d, rtype) ==
    CASE rtype = "mysql" -> ReSearch("StartTimestampNOW", d).found
      [] rtype = "sqlserver" -> ReSearch("StartPositionNOW", d).found
      [] rtype = "mongodb" ->
            ReSearch("startTimestamp", d).found \/ ReSearch("MongoSource", d).found
      [] rtype = "oracle" ->
            ReSearch("startSCN", d).found \/ ReSearch("OracleSource", d).found
      [] OTHER -> FALSE

Finished == pc \in {"skipped", "nodata", "done"}

\* How the processing of the current application ended.
Outcome == [file |-> file0, pc |-> pc, updated |-> updated]

\* Mutant of NextApplication: an application that was not updated ends the loop.
NextApplication_StopOnFailure ==
    /\ Finished
    /\ Len(outcomes) + 1 < Len(apps)
    /\ outcomes' = Append(outcomes, Outcome)
    /\ IF updated
       THEN LET a == apps[Len(outcomes) + 2]
            IN  /\ file' = a.file
                /\ file0' = a.file
                /\ result' = a.result
                /\ readable' = a.readable
                /\ position_info' = None
                /\ reader_type' = "None"
                /\ updated' = FALSE
                /\ writes' = 0
                /\ pc' = "classify"
       ELSE /\ pc' = "summary"
            /\ UNCHANGED <<file, file0, result, readable, position_info, reader_type,
                           updated, writes>>
    /\ UNCHANGED <<apps, counts>>
    /\ UNCHANGED outsideLoop

\* Line 593: the loop goes on with the next application of exported_files.
NextApplication ==
    /\ Finished
    /\ Len(outcomes) + 1 < Len(apps)
    /\ outcomes' = Append(outcomes, Outcome)
    /\ LET a == apps[Len(outcomes) + 2]
       IN  /\ file' = a.file
           /\ file0' = a.file
           /\ result' = a.result
           /\ readable' = a.readable
    /\ position_info' = None
    /\ reader_type' = "None"
    /\ updated' = FALSE
    /\ writes' = 0
    /\ pc' = "classify"
    /\ UNCHANGED <<apps, counts>>
    /\ UNCHANGED outsideLoop

\* Lines 637-645: after the last application, the run summary.
Summary ==
    /\ Finished
    /\ Len(outcomes) + 1 = Len(apps)
    /\ outcomes' = Append(outcomes, Outcome)
    /\ pc' = "summary"
    /\ UNCHANGED <<file, file0, result, readable, position_info, reader_type, updated,
                   writes, apps, counts>>
    /\ UNCHANGED outsideLoop

MaxApps == 3

\* Applications with every outcome: updated; no answer to the checkpoint request;
\* no source declaration; no placeholder; an update that raises an error; a file
\* that cannot be read.
LoopApps ==
    {App("CREATE SOURCE s USING Global.MysqlReader (\n StartTimestamp: 'NOW'\n) OUTPUT TO o;\n",
         ApiReport("BinlogName: bin.01\nBinLogPosition: 456 "), TRUE),
     App("CREATE SOURCE s USING Global.MysqlReader (\n StartTimestamp: 'NOW'\n) OUTPUT TO o;\n",
         ApiNone, TRUE),
     App("CREATE TARGET t USING Global.FileWriter (\n a: 'b'\n) INPUT FROM o;\n",
         ApiReport("BinlogName: bin.01\nBinLogPosition: 456 "), TRUE),
     App("CREATE SOURCE s USING Global.MysqlReader (\n a: 'b'\n) OUTPUT TO o;\n",
         ApiReport("BinlogName: bin.01\nBinLogPosition: 456 "), TRUE),
     App("CREATE SOURCE m USING Global.MongoDBReader (\n startTimestamp: '2024'\n) OUTPUT TO o;\n",
         ApiReport("UTC DateTime value = 2025\\1]"), TRUE),
     App("CREATE SOURCE s USING Global.MysqlReader (\n StartTimestamp: 'NOW'\n) OUTPUT TO o;\n",
         ApiReport("BinlogName: bin.01\nBinLogPosition: 456 "), FALSE)}

\* exported_files is not empty (lines 578-580).
InitLoop ==
    /\ apps \in UNION {[1..n -> LoopApps] : n \in 1..MaxApps}
    /\ outcomes = <<>>
    /\ file = apps[1].file
    /\ file0 = file
    /\ result = apps[1].result
    /\ readable = apps[1].readable
    /\ position_info = None
    /\ reader_type = "None"
    /\ updated = FALSE
    /\ writes = 0
    /\ pc = "classify"
    /\ LoopEntered
    /\ counts = ZeroCounts

NextLoop ==
    \/ GetReaderType
    \/ GetCheckpointHistory
    \/ UpdateTqlWithPosition
    \/ NextApplication
    \/ Summary

SpecLoop == InitLoop /\ [][NextLoop]_vars

\* The loop is sequential code: a step that can be taken is taken.
SpecLoopFair == SpecLoop /\ WF_vars(NextLoop)

\* Every application has been processed, once and in the order of exported_files.
AllProcessed ==
    /\ Len(outcomes) = Len(apps)
    /\ \A k \in 1..Len(apps) : outcomes[k].file = apps[k].file

\* C15: the loop reaches the run summary with every extracted application
\* processed exactly once, whatever the outcome (unrecognized document, no
\* checkpoint data, nothing to replace, failed checkpoint request, error while
\* reading or updating the file) of the applications before it.
C15_LoopReachesSummary == <>[](pc = "summary" /\ AllProcessed)

\* The run summary was reached after an unreadable file, a failed checkpoint
\* request and an update that raised an error.
C15_Witness ==
    /\ pc = "summary"
    /\ Len(apps) = 3
    /\ ~apps[1].readable /\ outcomes[1].pc = "skipped"
    /\ apps[2].result = ApiNone /\ outcomes[2].pc = "nodata"
    /\ Occurrences(apps[3].file, "MongoDBReader") = 1
    /\ outcomes[3].pc = "done" /\ ~outcomes[3].updated

(***************************************************************************)
(* The MongoDB, SQL Server and Oracle rules, and the entry read (SpecExtract).*)
(***************************************************************************)
\* The literal that follows the first marker "UTC DateTime value = " of s and is
\* closed by "]" ("" when s has no marker, or no "]" after it).
MongoLiteral(s) ==
    LET marks == {i \in 1..Len(s) : StartsAt(s, i, "UTC DateTime value = ")}
        i == CHOOSE m \in marks : \A n \in marks : m <= n
        b == i + Len("UTC DateTime value = ")
        closes == {k \in b..Len(s) : Ch(s, k) = "]"}
        e == CHOOSE k \in closes : \A n \in closes : k <= n
    IN  IF marks = {} \/ closes = {} THEN "" ELSE SubSeq(s, b, e - 1)

\* l without the suffix, when l ends with it.
WithoutTrailing(l, suffix) ==
    IF Len(l) >= Len(suffix) /\ SubSeq(l, Len(l) - Len(suffix) + 1, Len(l)) = suffix
    THEN SubSeq(l, 1, Len(l) - Len(suffix))
    ELSE l

\* C16: when no earlier rule matches and the summary has the marker
\* "UTC DateTime value = " followed by a literal L closed by "]", the result is a
\* mongodb descriptor whose rendered form is L without a trailing ".000Z", every
\* other character of L kept.
C16_MongoTrailingSuffixOnly ==
    LET l == MongoLiteral(SummaryOf(result))
    IN  (Extracted /\ FirstRule(SummaryOf(result)) = "mongodb" /\ l # "") =>
            position_info = [type |-> "mongodb",
                             datetime |-> WithoutTrailing(l, ".000Z"),
                             format_string |-> WithoutTrailing(l, ".000Z")]

\* The hexadecimal digits after the label "CommitScn:" at index i of s and the
\* white space that follows it ("" when there is none).
LsnRun(s, i) ==
    LET b == SkipIn(s, i + Len("CommitScn:"), Whitespace)
    IN  SubSeq(s, b, SkipIn(s, b, HexDigits) - 1)

\* The indexes of s where the label is followed by at least one hexadecimal digit.
LsnLabels(s) == {i \in 1..Len(s) : StartsAt(s, i, "CommitScn:") /\ LsnRun(s, i) # ""}

\* C17: when the MySQL rule does not match and the summary has a CommitScn label
\* followed by hexadecimal digits, the result is a sqlserver descriptor whose lsn
\* is that run of digits, letter case preserved, and whose rendered form is
\* "LSN:0x" followed by the lsn.
C17_SqlServerLsn ==
    LET s == SummaryOf(result)
    IN  (Extracted /\ ~(HasBinlogName(s) /\ HasBinLogPosition(s)) /\ LsnLabels(s) # {}) =>
            LET i == CHOOSE m \in LsnLabels(s) : \A n \in LsnLabels(s) : m <= n
            IN  position_info = [type |-> "sqlserver",
                                 lsn |-> LsnRun(s, i),
                                 format_string |-> "LSN:0x" \o LsnRun(s, i)]

\* A sqlserver descriptor with digits of both cases, from a summary that also has
\* one of the two MySQL labels.
C17_Witness ==
    /\ Extracted
    /\ HasBinlogName(SummaryOf(result))
    /\ position_info = [type |-> "sqlserver", lsn |-> "2aF", format_string |-> "LSN:0x2aF"]

\* The digits of "CommitSCN[<digits>]" at index i of s ("" when the text at i is
\* not of that form).
ScnDigits(s, i) ==
    LET b == Lit(s, i, "CommitSCN[")
        e == Plus(s, b, Digits)
    IN  IF Lit(s, e, "]") > 0 THEN SubSeq(s, b, e - 1) ELSE ""

ScnLabels(s) == {i \in 1..Len(s) : ScnDigits(s, i) # ""}

\* s is "{OpenSCN[a]-CommitSCN[b]-SeqNum[c]}" for digits a, b, c: the index of b, or 0.
OracleShape(s) ==
    LET b == Lit(s, Plus(s, Lit(s, 1, "{OpenSCN["), Digits), "]-")
        e == Lit(s, Plus(s, Lit(s, Plus(s, Lit(s, b, "CommitSCN["), Digits), "]-SeqNum["),
                         Digits), "]}")
    IN  IF e = Len(s) + 1 THEN b ELSE 0

\* C18: when no earlier rule matches and the summary has "CommitSCN[<digits>]", the
\* result is an oracle descriptor whose rendered form is the digits, without a
\* prefix; a summary "{OpenSCN[a]-CommitSCN[b]-SeqNum[c]}" gives the oracle
\* descriptor of b (the SQL Server rule, on the label "CommitScn:", does not take it).
C18_OracleScn ==
    LET s == SummaryOf(result)
    IN  Extracted =>
            /\ (FirstRule(s) \notin {"mysql", "sqlserver", "mongodb"} /\ ScnLabels(s) # {}) =>
                    LET i == CHOOSE m \in ScnLabels(s) : \A n \in ScnLabels(s) : m <= n
                    IN  position_info = [type |-> "oracle",
                                         scn |-> ScnDigits(s, i),
                                         format_string |-> ScnDigits(s, i)]
            /\ OracleShape(s) > 0 =>
                    /\ position_info.type = "oracle"
                    /\ position_info.format_string = ScnDigits(s, OracleShape(s))

\* The oracle descriptor of a summary of the shape of Oracle's own.
C18_Witness ==
    /\ Extracted
    /\ OracleShape(SummaryOf(result)) > 0
    /\ position_info = [type |-> "oracle", scn |-> "308", format_string |-> "308"]

\* C19: the result is what the rules give on the summary text of the first entry
\* of the history (of the first result object), whatever the later entries are.
C19_FirstEntryOnly == Extracted => position_info = ExtractPosition(SummaryOf(result))

\* The first entry matches no rule, a later entry would give a descriptor, and the
\* result is None.
C19_Witness ==
    /\ Extracted
    /\ result \in LaterEntryReports
    /\ Len(result.list[1].output) = 2
    /\ result.list[1].output[1] = Checkpoint(TRUE, "a\\1")
    /\ ExtractPosition(result.list[1].output[2].sourcePositionSummary) # None
    /\ position_info = None

(***************************************************************************)
(* SpecClauses: the insertion into documents with one or several source    *)
(* clauses and with a backslash among the options.                         *)
(***************************************************************************)
MaxClauseParts == 4

\* A MongoDB and an Oracle declaration, an option whose value holds a backslash
\* and the letter t, an option whose value holds parentheses, a startTimestamp
\* field whose quote is not closed, the end of the clause.
ClauseParts ==
    {"CREATE SOURCE m USING Global.MongoDBReader (\n",
     "CREATE SOURCE o USING Global.OJet (\n",
     " d: '\\t'\n",
     " f: 'x(y)'\n",
     " startTimestamp: '20\n",
     ") OUTPUT TO s;\n"}

ClauseDocs == Texts(ClauseParts, MaxClauseParts)

ClauseReports ==
    {ApiReport("UTC DateTime value = 2025-10-02T20:48:28.000Z]"),
     ApiReport("{OpenSCN[306]-CommitSCN[307]-SeqNum[2]}")}

InitClauses == InitApp(ClauseDocs, ClauseReports)

SpecClauses == InitClauses /\ [][NextApp]_vars

\* The readers whose declaration the source pattern of the family accepts.
ReadersOf(rtype) == IF rtype = "mongodb" THEN {"MongoDBReader"} ELSE {"OracleReader", "OJet"}

\* t is d with the text new put in before the ")" of one of its source clauses,
\* and nothing else changed.
InsertedInClause(d, t, readers, new) ==
    \E i \in Clauses(d, readers) :
        LET close == i + Len(SourceClauseAt(d, ToLower(d), i, TRUE, readers).groups[1])
        IN  Spliced(d, close, close, new, t)

\* C20: when the update inserts a new startTimestamp / startSCN field, the
\* document afterwards is the document before with one text (comma, line end and
\* the field) put in at one place inside the source clause, every character of
\* the document before kept, in order; also with several source clauses and with
\* backslashes inside the clause.
C20_InsertFrame ==
    (/\ Done
     /\ updated
     /\ reader_type \in {"mongodb", "oracle"}
     /\ position_info.type = reader_type
     /\ Fields(file0, PositionField(reader_type)) = {}) =>
        InsertedInClause(file0, file, ReadersOf(reader_type),
                         ", \n  " \o PositionField(reader_type) \o ": '"
                             \o position_info.format_string \o "'")

\* The indexes after the "(" that opens the options of a source declaration of
\* one of the readers in d.
Opens(d, readers) ==
    {Lit(ToLower(d), Star(ToLower(d), ReaderEnd(ToLower(d), SourceHeadEnd(ToLower(d), i, TRUE),
                                                readers), Whitespace), "(") :
        i \in 1..Len(d)} \ {0}

\* The indexes from o on of a ")" of d that the keyword OUTPUT follows (white
\* space between them allowed, letter case ignored).
ClauseEnds(d, o) ==
    {k \in o..Len(d) :
        Ch(d, k) = ")" /\ Lit(ToLower(d), Star(ToLower(d), k + 1, Whitespace), "output") > 0}

\* C21: on the insert path the text between the "(" of the source declaration
\* and the end of the clause may be any text over several lines; the insertion
\* point is the first ")" that OUTPUT follows, and a ")" inside the options that
\* OUTPUT does not follow neither takes the insertion nor prevents it.  (Stated
\* for documents with one declaration and no backslash.)
C21_AnchorsOnClauseEnd ==
    (/\ Done
     /\ reader_type \in {"mongodb", "oracle"}
     /\ position_info.type = reader_type
     /\ Fields(file0, PositionField(reader_type)) = {}
     /\ Occurrences(file0, "\\") = 0
     /\ Cardinality(Opens(file0, ReadersOf(reader_type))) = 1) =>
        \A o \in Opens(file0, ReadersOf(reader_type)) :
            ClauseEnds(file0, o + 1) # {} =>
                /\ updated
                /\ Spliced(file0,
                           CHOOSE k \in ClauseEnds(file0, o + 1) :
                               \A n \in ClauseEnds(file0, o + 1) : k <= n,
                           CHOOSE k \in ClauseEnds(file0, o + 1) :
                               \A n \in ClauseEnds(file0, o + 1) : k <= n,
                           ", \n  " \o PositionField(reader_type) \o ": '"
                               \o position_info.format_string \o "'",
                           file)

\* The position field of a family in a TQL document.
WrittenField(rtype) ==
    IF rtype \in {"mysql", "sqlserver"} THEN StartField(rtype) ELSE PositionField(rtype)

\* C22: whenever the update changes a document, the text between the quotes of
\* the position field written is the rendered form of the descriptor, character
\* for character, also when it holds backslashes.
C22_RenderedFormEmbedded ==
    (Done /\ updated /\ position_info.type = reader_type) =>
        Occurrences(file, WrittenField(reader_type) \o ": '" \o position_info.format_string
                              \o "'") > 0

\* C23: on the existing-field path of a mongodb (oracle) document, also with
\* several startTimestamp (startSCN) fields, the document written back has the
\* value of exactly one of them replaced; the other fields, and all the rest of
\* the document, are as they were.
C23_OneFieldUpdated ==
    (/\ Done
     /\ updated
     /\ reader_type \in {"mongodb", "oracle"}
     /\ position_info.type = reader_type
     /\ Fields(file0, PositionField(reader_type)) # {}) =>
        \E i \in Fields(file0, PositionField(reader_type)) :
            Spliced(file0, i, FieldAt(file0, i, PositionField(reader_type)).end,
                    PositionField(reader_type) \o ": '" \o position_info.format_string \o "'",
                    file)

\* The occurrences in d of <field>: ' with the quote closed (closed = TRUE) or not
\* closed (closed = FALSE) before the end of the line.
QuotedFields(d, field, closed) ==
    {i \in 1..Len(d) :
        LET q == Lit(d, Star(d, Lit(d, i, field \o ":"), Whitespace), "'")
        IN  q > 0 /\ (Ch(d, SkipNotIn(d, q, {"'", "\n"})) = "'") = closed}

\* C24: a position field with an unterminated quote (and no well-formed one in
\* the document) is no insertion point: the update returns False and the
\* document is unchanged; no text up to a later quote is replaced, and no second
\* field is inserted.
C24_MalformedFieldNoChange ==
    (/\ Done
     /\ reader_type \in {"mongodb", "oracle"}
     /\ position_info.type = reader_type
     /\ QuotedFields(file0, PositionField(reader_type), FALSE) # {}
     /\ QuotedFields(file0, PositionField(reader_type), TRUE) = {}) =>
        (~updated /\ file = file0)

\* C25: whenever the file of an application is updated, the descriptor written
\* into it was extracted by the rule of the family the document was classified
\* as (mysql: FileName:..;offset:.., sqlserver: LSN:0x.., mongodb: a timestamp,
\* oracle: an SCN).
C25_DescriptorOfSameFamily == (Done /\ updated) => position_info.type = reader_type

(***************************************************************************)
(* SpecReclassify: the classification of a MongoDB document after the      *)
(* insertion of its position field.                                        *)
(***************************************************************************)
MaxReclassifyParts == 3

ReclassifyParts ==
    {"CREATE SOURCE m USING Global.MongoDBReader (\n",
     " a: 'b'\n",
     ") OUTPUT TO s;\n"}

ReclassifyDocs == Texts(ReclassifyParts, MaxReclassifyParts)

\* No response; a timestamp; a literal (any text without "]") that reads as the
\* source declaration of another reader.
ReclassifyReports ==
    {ApiNone,
     ApiReport("UTC DateTime value = 2025-10-02T20:48:28.000Z]"),
     ApiReport("UTC DateTime value = CREATE SOURCE x USING Global.MysqlReader]")}

InitReclassify == InitApp(ReclassifyDocs, ReclassifyReports)

SpecReclassify == InitReclassify /\ [][NextApp]_vars

\* C26: a mongodb document without a startTimestamp field is, after the update
\* has inserted the field, classified mongodb as before.
C26_ClassificationStable ==
    (/\ Done
     /\ updated
     /\ reader_type = "mongodb"
     /\ position_info.type = "mongodb"
     /\ Fields(file0, "startTimestamp") = {}) =>
        get_reader_type(file) = "mongodb"

(***************************************************************************)
(* SpecRun: main of the exporter from the authentication (line 536) to the *)
(* run summary (line 645).                                                 *)
(***************************************************************************)
MaxListed == 2

\* The applications the server may list: one that is updated, one with checkpoint
\* data whose update fails, one without a source declaration.
RunApps ==
    {App("CREATE SOURCE s USING Global.MysqlReader (\n StartTimestamp: 'NOW'\n) OUTPUT TO o;\n",
         ApiReport("BinlogName: bin.01\nBinLogPosition: 456 "), TRUE),
     App("CREATE SOURCE m USING Global.MongoDBReader (\n startTimestamp: '2024'\n) OUTPUT TO o;\n",
         ApiReport("UTC DateTime value = 2025\\1]"), TRUE),
     App("CREATE TARGET t USING Global.FileWriter (\n a: 'b'\n) INPUT FROM o;\n",
         ApiReport("BinlogName: bin.01\nBinLogPosition: 456 "), TRUE)}

\* What the server may answer to mon; (get_application_list returns [] on failure).
Listings == UNION {[1..n -> RunApps] : n \in 0..MaxListed}

\* What happens to one application in extract_applications_from_zip: no entry of
\* the archive matches it (lines 266-275); its TQL file exists and is kept (280-282);
\* its file is written (287-290); an error is raised before its file is opened for
\* writing; an error is raised by source.read() after open(output_file, 'wb') has
\* emptied the file (lines 287-288).
Extractions(no_overwrite) ==
    {"missing", "written", "raised", "truncated"}
        \cup (IF no_overwrite THEN {"kept"} ELSE {})

\* The first application at which the extraction raises an error, 0 if none does.
RaisedAt(how) ==
    IF \E i \in DOMAIN how : how[i] \in {"raised", "truncated"}
    THEN CHOOSE i \in DOMAIN how :
             /\ how[i] \in {"raised", "truncated"}
             /\ \A j \in 1..(i - 1) : how[j] \notin {"raised", "truncated"}
    ELSE 0

RECURSIVE Included(_, _, _)
\* The applications of exported_files, in the order of app_names.
Included(names, how, i) ==
    IF i > Len(names) THEN <<>>
    ELSE (IF how[i] \in {"written", "kept"} THEN <<names[i]>> ELSE <<>>)
             \o Included(names, how, i + 1)

\* Lines 245-298: exported_files and the TQL files written on the way.  An error
\* anywhere in the try block returns {} (lines 296-298) and leaves the files
\* written before it on disk.
extract_applications_from_zip(names, how) ==
    The({IF k = 0
         THEN [exported_files |-> Included(names, how, 1),
               written |-> {i \in DOMAIN how : how[i] = "written"}]
         ELSE [exported_files |-> <<>>,
               written |-> {i \in 1..k : how[i] \in {"written", "truncated"}}]
         : k \in {RaisedAt(how)}})

\* sys.exit(1) after the named step has failed.
Exit(r, step) == [r EXCEPT !.exit_status = <<1>>, !.failed = step]

\* The per-application variables before the loop.
NoApplication ==
    /\ result = ApiNone
    /\ position_info = None
    /\ file = ""
    /\ file0 = ""
    /\ reader_type = "None"
    /\ updated = FALSE
    /\ writes = 0
    /\ apps = <<>>
    /\ outcomes = <<>>
    /\ readable = TRUE

\* What the steps before the loop leave alone.
beforeLoop == <<result, position_info, file, file0, reader_type, updated, writes, apps,
                outcomes, readable, counts, argv, args, importer, requests>>

\* Lines 534-539.
Authenticate ==
    /\ pc = "authenticate"
    /\ \E ok \in BOOLEAN :
           /\ run' = IF ok THEN [run EXCEPT !.token = TRUE, !.steps = Append(@, "authenticate")]
                     ELSE Exit(run, "authenticate")
           /\ pc' = IF ~ok THEN "exit"
                    ELSE IF run.droptypes = "requested" THEN "droptypes" ELSE "list"
    /\ UNCHANGED beforeLoop

\* Lines 542-547: a failure is reported and the run goes on.
DropTypesByPrefix ==
    /\ pc = "droptypes"
    /\ \E ok \in BOOLEAN :
           run' = [run EXCEPT !.droptypes = IF ok THEN "dropped" ELSE "failed",
                              !.steps = Append(@, "droptypes")]
    /\ pc' = "list"
    /\ UNCHANGED beforeLoop

\* Lines 550-555.
GetApplicationList ==
    /\ pc = "list"
    /\ \E names \in Listings :
           /\ run' = IF names # <<>>
                     THEN [run EXCEPT !.app_names = names, !.steps = Append(@, "list")]
                     ELSE Exit(run, "list")
           /\ pc' = IF names # <<>> THEN "export" ELSE "exit"
    /\ UNCHANGED beforeLoop

\* Lines 561-571.
ExportAllApplications ==
    /\ pc = "export"
    /\ \E ok \in BOOLEAN :
           /\ run' = IF ok THEN [run EXCEPT !.exported = TRUE, !.steps = Append(@, "export")]
                     ELSE Exit(run, "export")
           /\ pc' = IF ok THEN "extract" ELSE "exit"
    /\ UNCHANGED beforeLoop

\* Lines 574-593: the extraction, and the entry of the loop with the first of
\* exported_files.
ExtractApplicationsFromZip ==
    /\ pc = "extract"
    /\ \E how \in [1..Len(run.app_names) -> Extractions(run.no_overwrite)] :
       \E x \in {extract_applications_from_zip(run.app_names, how)} :
           IF x.exported_files = <<>>
           THEN /\ run' = Exit([run EXCEPT !.written = x.written], "extract")
                /\ pc' = "exit"
                /\ UNCHANGED <<result, position_info, file, file0, reader_type, updated,
                               writes, apps, outcomes, readable, counts>>
           ELSE /\ run' = [run EXCEPT !.written = x.written, !.steps = Append(@, "extract")]
                /\ apps' = x.exported_files
                /\ file' = x.exported_files[1].file
                /\ file0' = x.exported_files[1].file
                /\ result' = x.exported_files[1].result
                /\ readable' = x.exported_files[1].readable
                /\ counts' = ZeroCounts
                /\ pc' = "classify"
                /\ UNCHANGED <<position_info, reader_type, updated, writes, outcomes>>
    /\ UNCHANGED <<argv, args, importer, requests>>

\* Line 534: the client is constructed; --droptypes and --no-overwrite are options
\* of the command line.
InitRun ==
    /\ pc = "authenticate"
    /\ \E d \in {"not requested", "requested"}, n \in BOOLEAN :
           run = [token |-> FALSE, droptypes |-> d, no_overwrite |-> n, app_names |-> <<>>,
                  exported |-> FALSE, exit_status |-> NoExit, failed |-> "",
                  written |-> {}, steps |-> <<>>]
    /\ NoApplication
    /\ counts = ZeroCounts
    /\ argv = NoOptions
    /\ args = EnvironmentOverride(ParseArgs(NoOptions))
    /\ importer = ImporterNotStarted
    /\ requests = <<>>

NextRun ==
    \/ Authenticate
    \/ DropTypesByPrefix
    \/ GetApplicationList
    \/ ExportAllApplications
    \/ ExtractApplicationsFromZip
    \/ GetReaderType
    \/ GetCheckpointHistory
    \/ UpdateTqlWithPosition
    \/ NextApplication
    \/ Summary

SpecRun == InitRun /\ [][NextRun]_vars

\* The run is in its processing loop or past it.
InLoop == pc \in {"classify", "checkpoint", "update", "skipped", "nodata", "done", "summary"}

\* A step of the run was completed successfully.
Succeeded(step) == \E i \in DOMAIN run.steps : run.steps[i] = step

\* C27: no document is classified or patched unless the authentication, the
\* listing (non-empty), the bulk export and the extraction (at least one file)
\* succeeded before in the run; a run in which one of these steps fails ends with
\* exit status 1 and has modified no TQL file; a failed drop-types step does not
\* end the run.
C27_RunOrdering ==
    /\ InLoop =>
          /\ Succeeded("authenticate") /\ run.token
          /\ Succeeded("list") /\ run.app_names # <<>>
          /\ Succeeded("export") /\ run.exported
          /\ Succeeded("extract") /\ apps # <<>>
    /\ pc = "exit" =>
          /\ run.exit_status = <<1>>
          /\ run.written = {}
          /\ outcomes = <<>> /\ writes = 0 /\ file = file0
    /\ run.droptypes = "failed" =>
          /\ run.failed # "droptypes"
          /\ pc = "exit" => run.failed \in {"list", "export", "extract"}

\* The sum of the four reader counters.
ReaderCount ==
    counts.mysql_reader_count + counts.sqlserver_reader_count
        + counts.mongodb_reader_count + counts.oracle_reader_count

\* The current application counts if it has reached one of the positions.
Current(positions) == IF pc \in positions THEN 1 ELSE 0

\* The applications processed before that were recognized, had checkpoint data,
\* were updated.
RecognizedBefore == Cardinality({i \in DOMAIN outcomes : outcomes[i].pc # "skipped"})

WithDataBefore == Cardinality({i \in DOMAIN outcomes : outcomes[i].pc = "done"})

UpdatedBefore == Cardinality({i \in DOMAIN outcomes : outcomes[i].updated})

\* C30: at every point of the processing loop, updated_count <=
\* checkpoint_data_count <= the sum of the four reader counters <= the number of
\* extracted files <= the number of listed applications; an application adds at
\* most one to each counter: each counter is the number of the applications
\* processed so far that reached the counter's line.
C30_CountersOrdered ==
    InLoop =>
        /\ counts.updated_count <= counts.checkpoint_data_count
        /\ counts.checkpoint_data_count <= ReaderCount
        /\ ReaderCount <= Len(apps)
        /\ Len(apps) <= Len(run.app_names)
        /\ ReaderCount = RecognizedBefore + Current({"checkpoint", "update", "nodata", "done"})
        /\ counts.checkpoint_data_count = WithDataBefore + Current({"update", "done"})
        /\ counts.updated_count = UpdatedBefore + Current(IF updated THEN {"done"} ELSE {})
        /\ \A c \in DOMAIN counts : counts[c] \in 0..ReaderCount

\* The summary of a run over a MySQL application that was updated and a MongoDB
\* application with checkpoint data that was not.
C30_Witness ==
    /\ pc = "summary"
    /\ Len(run.app_names) = 2 /\ Len(apps) = 2
    /\ counts.mysql_reader_count = 1 /\ counts.mongodb_reader_count = 1
    /\ counts.checkpoint_data_count = 2
    /\ counts.updated_count = 1

(***************************************************************************)
(* SpecConfig: the options of the exporter's command line and the          *)
(* --environment override (main, lines 487-523).                           *)
(***************************************************************************)
\* The environments the parser admits (line 505).
EnvironmentChoices == {"default", "development", "staging", "production"}

\* What an option may be given as: the value of the default configuration, the
\* value of the production environment, another value.
GivenValues(o) == {STRIIM_CONFIG_EXPORT[o], ENVIRONMENTS.production[o], "x"}

\* An option is absent from the command line or given with one of the values.
Given(o) == {<<>>} \cup {<<v>> : v \in GivenValues(o)}

CommandLines ==
    {[environment |-> e, url |-> u, username |-> n, password |-> p, passphrase |-> s] :
        e \in EnvironmentChoices, u \in Given("url"), n \in Given("username"),
        p \in Given("password"), s \in Given("passphrase")}

\* The exporter's run before line 534.
RunNotStarted ==
    [token |-> FALSE, droptypes |-> "not requested", no_overwrite |-> FALSE,
     app_names |-> <<>>, exported |-> FALSE, exit_status |-> NoExit, failed |-> "",
     written |-> {}, steps |-> <<>>]

\* Line 509: the command line has been parsed.
InitConfig ==
    /\ pc = "environment"
    /\ argv \in CommandLines
    /\ args = ParseArgs(argv)
    /\ run = RunNotStarted
    /\ counts = ZeroCounts
    /\ NoApplication
    /\ importer = ImporterNotStarted
    /\ requests = <<>>

\* Lines 512-523.
ApplyEnvironment ==
    /\ pc = "environment"
    /\ args' = EnvironmentOverride(args)
    /\ pc' = "configured"
    /\ UNCHANGED <<result, position_info, file, file0, reader_type, updated, writes, apps,
                   outcomes, readable, run, counts, argv, importer, requests>>

NextConfig == ApplyEnvironment

SpecConfig == InitConfig /\ [][NextConfig]_vars

\* C29: with an environment other than default, each of url, username, password and
\* passphrase that was given on the command line keeps the given value, and each
\* that was not given takes the value the environment configures.
C29_GivenOptionsKept ==
    (pc = "configured" /\ argv.environment # "default") =>
        \A o \in Options :
            /\ argv[o] # <<>> => args[o] = argv[o][1]
            /\ argv[o] = <<>> => args[o] = get_config(argv.environment)[o]

(***************************************************************************)
(* SpecImport: main of the importer (striim_import_apps.py, lines 288-392).*)
(***************************************************************************)
MaxFiles == 2

\* r'CREATE\s+APPLICATION\s+(\w+)' at index i of the case-folded content: the
\* indices of the group, <<0, 0>> without a match.
AppNameAt(lo, i) ==
    The({The({IF e > 0 THEN <<b, e>> ELSE <<0, 0>> : e \in {Plus(lo, b, WordChars)}}) :
         b \in {Plus(lo, Lit(lo, Plus(lo, Lit(lo, i, "create"), Whitespace),
                             "application"), Whitespace)}})

\* Lines 223-231: the application name as <<name>>, <<>> for None.
extract_app_name(tql_content) ==
    The({The({IF starts = {} THEN <<>>
              ELSE The({<<SubSeq(tql_content, g[1], g[2] - 1)>> :
                        g \in {AppNameAt(lo, CHOOSE i \in starts :
                                                 \A j \in starts : i <= j)}}) :
              starts \in {{i \in 1..Len(lo) : AppNameAt(lo, i)[1] > 0}}}) :
         lo \in {ToLower(tql_content)}})

\* Path(filename).stem of a file name that ends with .tql.
Stem(filename) == SubSeq(filename, 1, Len(filename) - 4)

\* Lines 234-245: the stem of the file name if it holds a namespace, else the name.
get_full_app_name(filename, app_name) ==
    IF \E i \in 1..Len(Stem(filename)) : Ch(Stem(filename), i) = "."
    THEN Stem(filename) ELSE app_name

\* A TQL file of the import directory.
TqlFile(name, content, canRead) == [name |-> name, content |-> content, readable |-> canRead]

\* The files the import directory may hold: two that name an application (one with
\* a namespace in its file name), one that names none, one that cannot be read.
ImportFiles ==
    {TqlFile("a.mgo.tql", "create  APPLICATION mgo;\nCREATE SOURCE s USING Global.MongoDBReader ();\n", TRUE),
     TqlFile("b.tql", "CREATE APPLICATION b2 ;\n", TRUE),
     TqlFile("c.tql", "CREATE SOURCE s USING Global.MysqlReader ();\n", TRUE),
     TqlFile("d.tql", "CREATE APPLICATION d;\n", FALSE)}

\* name1 sorts before name2 (the names of ImportFiles differ in their first character).
Before(name1, name2) ==
    \E i \in 1..4 : \E j \in (i + 1)..4 :
        /\ Ch(name1, 1) = <<"a", "b", "c", "d">>[i]
        /\ Ch(name2, 1) = <<"a", "b", "c", "d">>[j]

\* Lines 206-220: the TQL files of the directory, sorted ([] for a directory that
\* does not exist).
Directories ==
    {files \in UNION {[1..n -> ImportFiles] : n \in 0..MaxFiles} :
        \A i \in 1..(Len(files) - 1) : Before(files[i].name, files[i + 1].name)}

\* What the server may answer to an import request: a list whose first result has
\* executionStatus Success; one whose first result has another status; no usable
\* answer (import_tql returns None, lines 80-85); a non-empty answer that is not a
\* list (line 375).
ImportResults == {"Success", "Failure", "None", "Completed"}

\* A request posted to the server for the file at index f of tql_files.
Request(f, kind, command, status) ==
    [file |-> f, kind |-> kind, command |-> command, status |-> status]

\* The file the loop is at.
CurrentFile == importer.tql_files[importer.processed + 1]

\* The full name used in the commands of the current file.
CurrentName == get_full_app_name(CurrentFile.name, importer.app_name[1])

\* Mutant of DeployAfter: the deployment does not depend on the import's status.
DeployAfter_AnyStatus(status, deploy, named) == deploy /\ named

\* Lines 356-363: the deployment follows an import whose first result has
\* executionStatus Success, with --deploy and an application name.
DeployAfter(status, deploy, named) == status = "Success" /\ deploy /\ named

\* The end of the loop body: the next file, or the summary after the last one.
NextFile(i) ==
    [i EXCEPT !.processed = @ + 1, !.app_name = <<>>, !.removal = <<>>]

AfterFile == IF importer.processed + 1 = Len(importer.tql_files) THEN "summary" ELSE "read"

\* What the importer leaves alone.
exporter == <<result, position_info, file, file0, reader_type, updated, writes, apps,
              outcomes, readable, run, counts, argv, args>>

\* Lines 288-296.
GetTqlFiles ==
    /\ pc = "scan"
    /\ \E files \in Directories :
           /\ importer' = [importer EXCEPT !.tql_files = files]
           /\ pc' = IF files = <<>> THEN "exit" ELSE "authenticate"
    /\ UNCHANGED requests
    /\ UNCHANGED exporter

\* Lines 303-309 and 42-61: status 200 is a success, with or without a token in
\* the answer.
ImporterAuthenticate ==
    /\ pc = "authenticate"
    /\ \E answer \in {"token", "no token", "failed"} :
           /\ importer' = [importer EXCEPT !.token = (answer = "token")]
           /\ pc' = IF answer = "failed" THEN "exit" ELSE "read"
    /\ UNCHANGED requests
    /\ UNCHANGED exporter

\* Lines 320-337 and 382-384: the file is read and its application name looked
\* up; a file that cannot be read is counted as failed.
ReadTqlFile ==
    /\ pc = "read"
    /\ IF CurrentFile.readable
       THEN \E name \in {extract_app_name(CurrentFile.content)} :
                /\ importer' = [importer EXCEPT !.app_name = name, !.removal = <<>>]
                /\ pc' = IF importer.force /\ name # <<>> THEN "stop" ELSE "import"
       ELSE /\ importer' = NextFile([importer EXCEPT !.failed_count = @ + 1])
            /\ pc' = AfterFile
    /\ UNCHANGED requests
    /\ UNCHANGED exporter

\* One of the three removal commands: without a token nothing is posted (lines
\* 120-122); whatever the server answers, main goes on (lines 131-145, 344-348).
Removal(at, kind, command, then) ==
    /\ pc = at
    /\ IF importer.token
       THEN \E ok \in BOOLEAN :
                /\ requests' = Append(requests, Request(importer.processed + 1, kind,
                                                        command, ok))
                /\ importer' = [importer EXCEPT !.removal = Append(@, ok)]
       ELSE UNCHANGED <<requests, importer>>
    /\ pc' = then
    /\ UNCHANGED exporter

\* Lines 343-344 and 118-145.
StopApplication ==
    Removal("stop", "STOP", "STOP APPLICATION " \o CurrentName \o ";", "undeploy")

\* Lines 345-346 and 147-174.
UndeployApplication ==
    Removal("undeploy", "UNDEPLOY", "UNDEPLOY APPLICATION " \o CurrentName \o ";", "drop")

\* Lines 347-348 and 176-203.
DropApplication ==
    Removal("drop", "DROP", "DROP APPLICATION " \o CurrentName \o " CASCADE;", "import")

\* Lines 351-380 and 63-85: the import request and the count of its result.
ImportTql ==
    /\ pc = "import"
    /\ IF importer.token
       THEN \E status \in ImportResults :
                /\ requests' = Append(requests, Request(importer.processed + 1, "IMPORT",
                                                        CurrentFile.content, status))
                /\ IF DeployAfter(status, importer.deploy, importer.app_name # <<>>)
                   THEN /\ importer' = [importer EXCEPT !.imported_count = @ + 1]
                        /\ pc' = "deploy"
                   ELSE /\ importer' =
                               NextFile(IF status \in {"Success", "Completed"}
                                        THEN [importer EXCEPT !.imported_count = @ + 1]
                                        ELSE [importer EXCEPT !.failed_count = @ + 1])
                        /\ pc' = AfterFile
       ELSE /\ importer' = NextFile([importer EXCEPT !.failed_count = @ + 1])
            /\ pc' = AfterFile
            /\ UNCHANGED requests
    /\ UNCHANGED exporter

\* Lines 363-370 and 87-116.
DeployApplication ==
    /\ pc = "deploy"
    /\ \E ok \in BOOLEAN :
           /\ requests' = Append(requests, Request(importer.processed + 1, "DEPLOY",
                                     "DEPLOY APPLICATION " \o CurrentName \o ";", ok))
           /\ importer' = NextFile(IF ok THEN [importer EXCEPT !.deployed_count = @ + 1]
                                   ELSE importer)
    /\ pc' = AfterFile
    /\ UNCHANGED exporter

\* Line 271: the command line is parsed; --force and --deploy are options.
InitImport ==
    /\ pc = "scan"
    /\ \E f \in BOOLEAN, d \in BOOLEAN :
           importer = [ImporterNotStarted EXCEPT !.force = f, !.deploy = d]
    /\ requests = <<>>
    /\ run = RunNotStarted
    /\ counts = ZeroCounts
    /\ argv = NoOptions
    /\ args = EnvironmentOverride(ParseArgs(NoOptions))
    /\ NoApplication

NextImport ==
    \/ GetTqlFiles
    \/ ImporterAuthenticate
    \/ ReadTqlFile
    \/ StopApplication
    \/ UndeployApplication
    \/ DropApplication
    \/ ImportTql
    \/ DeployApplication

SpecImport == InitImport /\ [][NextImport]_vars

\* The importer is sequential code: a step that can be taken is taken.
SpecImportFair == SpecImport /\ WF_vars(NextImport)

\* The file at index f names an application.
Named(f) == extract_app_name(importer.tql_files[f].content) # <<>>

\* The request at index k of the log is of the kind, for the file f.
IsRequest(k, kind, f) ==
    /\ k \in DOMAIN requests
    /\ requests[k].kind = kind
    /\ requests[k].file = f

\* The files whose loop body has reached the import call or ended.
Attempted ==
    {f \in 1..Len(importer.tql_files) :
        \/ f <= importer.processed
        \/ f = importer.processed + 1 /\ pc = "deploy"}

\* The order of the requests, in every state of the importer.
C28_Ordered ==
    /\ \A k \in DOMAIN requests :
           /\ (requests[k].kind = "IMPORT" /\ importer.force /\ Named(requests[k].file)) =>
                  /\ IsRequest(k - 3, "STOP", requests[k].file)
                  /\ IsRequest(k - 2, "UNDEPLOY", requests[k].file)
                  /\ IsRequest(k - 1, "DROP", requests[k].file)
           /\ requests[k].kind = "DEPLOY" =>
                  /\ importer.deploy
                  /\ IsRequest(k - 1, "IMPORT", requests[k].file)
                  /\ requests[k - 1].status = "Success"
    /\ \A f \in Attempted :
           (importer.token /\ importer.tql_files[f].readable) =>
               \E k \in DOMAIN requests : IsRequest(k, "IMPORT", f)
    /\ pc = "summary" =>
           /\ importer.processed = Len(importer.tql_files)
           /\ importer.imported_count + importer.failed_count = Len(importer.tql_files)

\* The importer has ended: it has exited before the loop, or it has been through
\* every file.
ImportEnded ==
    \/ pc = "exit"
    \/ pc = "summary" /\ importer.processed = Len(importer.tql_files)

\* C28: for each TQL file, with --force and an application name, STOP, UNDEPLOY
\* and DROP are posted in that order just before the import request, which is
\* posted whatever they returned; DEPLOY is posted only with --deploy and only
\* right after an import of the same file whose result has executionStatus
\* Success; the loop goes through every file whatever happened to the files before.
C28_ImporterOrdering == []C28_Ordered /\ <>ImportEnded

\* A run over two files with --force and --deploy: the first file's removal
\* requests and its import fail, the second file is imported and deployed.
C28_Witness ==
    /\ pc = "summary"
    /\ importer.force /\ importer.deploy
    /\ Len(requests) = 9
    /\ requests[1].kind = "STOP" /\ ~requests[1].status
    /\ requests[2].kind = "UNDEPLOY" /\ ~requests[2].status
    /\ requests[3].kind = "DROP" /\ ~requests[3].status
    /\ requests[4].kind = "IMPORT" /\ requests[4].status = "Failure"
    /\ requests[8].kind = "IMPORT" /\ requests[8].file = 2 /\ requests[8].status = "Success"
    /\ requests[9].kind = "DEPLOY" /\ requests[9].file = 2
    /\ importer.failed_count = 1 /\ importer.imported_count = 1

====
